---- MODULE Spec2Model ----
(***************************************************************************)
(* RevenuePilot + Shadow Operator: the Guardian risk engine, the pipeline  *)
(* orchestrator with its two gating queues, the reconcile operation        *)
(* (approve_guardian_decision) and the ExecutionAgent it dispatches to.    *)
(*                                                                         *)
(* Scores are integers in hundredths (0.40 is 40); risk scores and         *)
(* probabilities produced by the risk collaborator are in ten-thousandths  *)
(* (0.7 is 7000), the precision RiskAgent rounds to.  A Python dict is a   *)
(* function whose DOMAIN is its key set; an Optional value is a sequence   *)
(* of length 0 or 1.                                                       *)
(***************************************************************************)
EXTENDS Integers, Sequences, FiniteSets, TLC

\* ------------------------------------------------------------------------
\* Bounds of the model
\* ------------------------------------------------------------------------
\* calls of process_revenue_signals
MaxRuns == 2

\* calls of approve_guardian_decision
MaxReconciles == 2

\* calls of process_revenue_signals and approve_guardian_decision together
MaxCalls == 3

\* accounts in one request
MaxAccounts == 2

\* accounts in all requests together
MaxRequested == 2

RunIds == 1..MaxRuns

CallIds == 1..MaxReconciles

\* ------------------------------------------------------------------------
\* Dict helpers
\* ------------------------------------------------------------------------
EmptyDict == [k \in {} |-> 0]

Get(d, k, default) == IF k \in DOMAIN d THEN d[k] ELSE default

\* F applied to the value of v, which is computed once
Bind(v, F(_)) == CHOOSE y \in {F(x) : x \in {v}} : TRUE

RECURSIVE SumSeq(_)
SumSeq(s) == IF s = <<>> THEN 0 ELSE Head(s) + SumSeq(Tail(s))

\* ------------------------------------------------------------------------
\* GuardianAgent
\* ------------------------------------------------------------------------
AUTO_EXECUTE == "AUTO_EXECUTE"

HUMAN_APPROVAL_REQUIRED == "HUMAN_APPROVAL_REQUIRED"

HOLD_FOR_REVIEW == "HOLD_FOR_REVIEW"

AUTO_EXECUTE_THRESHOLD == 40

HOLD_THRESHOLD == 70

DEFAULT_BASE_RISK == 25

ACTION_BASE_RISK ==
    [email |-> 30, slack |-> 10, crm_update |-> 20, escalation |-> 5,
     offer_incentive |-> 35, offer |-> 35, late_fee_waiver |-> 40]

Min(a, b) == IF a < b THEN a ELSE b

\* RiskFactors that records the risk-level entry also when the bonus is 0,
\* ahead of the recovery-value entry
RiskFactorsRecordsAll(action_step, strategy, account_risk) ==
    LET action_type == Get(action_step, "action", "email")
        base        == Get(ACTION_BASE_RISK, action_type, DEFAULT_BASE_RISK)
        tone        == Get(action_step, "tone", "")
        recovery    == Get(strategy, "estimated_recovery", 0)
        risk_level  == Get(account_risk, "risk_level", "LOW")
        risk_bonus  == Get([LOW |-> 0, MEDIUM |-> 5, HIGH |-> 20], risk_level, 0)
        recovery_prob == Get(account_risk, "recovery_probability", 5000)
    IN  <<[factor |-> "action_type", delta |-> base]>>
        \o (IF tone \in {"urgent", "escalated"}
            THEN <<[factor |-> "tone", delta |-> 15]>> ELSE <<>>)
        \o <<[factor |-> "risk_level", delta |-> risk_bonus]>>
        \o (IF recovery > 50000
            THEN <<[factor |-> "high_recovery_value", delta |-> 30]>>
            ELSE IF recovery > 10000
            THEN <<[factor |-> "moderate_recovery_value", delta |-> 15]>>
            ELSE <<>>)
        \o (IF Get(account_risk, "escalation_required", FALSE)
            THEN <<[factor |-> "escalation_required", delta |-> 15]>> ELSE <<>>)
        \o (IF recovery_prob < 3000
            THEN <<[factor |-> "low_recovery_probability", delta |-> 25]>>
            ELSE IF recovery_prob < 5000
            THEN <<[factor |-> "moderate_recovery_probability", delta |-> 10]>>
            ELSE <<>>)

\* The deltas score_action applies, in the order it applies them; a delta
\* that is not applied is absent from the list.
RiskFactors(action_step, strategy, account_risk) ==
    LET action_type == Get(action_step, "action", "email")
        base        == Get(ACTION_BASE_RISK, action_type, DEFAULT_BASE_RISK)
        tone        == Get(action_step, "tone", "")
        recovery    == Get(strategy, "estimated_recovery", 0)
        risk_level  == Get(account_risk, "risk_level", "LOW")
        risk_bonus  == Get([LOW |-> 0, MEDIUM |-> 5, HIGH |-> 20], risk_level, 0)
        recovery_prob == Get(account_risk, "recovery_probability", 5000)
    IN  <<[factor |-> "action_type", delta |-> base]>>
        \o (IF tone \in {"urgent", "escalated"}
            THEN <<[factor |-> "tone", delta |-> 15]>> ELSE <<>>)
        \o (IF recovery > 50000
            THEN <<[factor |-> "high_recovery_value", delta |-> 30]>>
            ELSE IF recovery > 10000
            THEN <<[factor |-> "moderate_recovery_value", delta |-> 15]>>
            ELSE <<>>)
        \o (IF risk_bonus > 0
            THEN <<[factor |-> "risk_level", delta |-> risk_bonus]>> ELSE <<>>)
        \o (IF Get(account_risk, "escalation_required", FALSE)
            THEN <<[factor |-> "escalation_required", delta |-> 15]>> ELSE <<>>)
        \o (IF recovery_prob < 3000
            THEN <<[factor |-> "low_recovery_probability", delta |-> 25]>>
            ELSE IF recovery_prob < 5000
            THEN <<[factor |-> "moderate_recovery_probability", delta |-> 10]>>
            ELSE <<>>)

\* score_action without the cap at 1.0
score_actionUncapped(action_step, strategy, account_risk) ==
    LET Scored(factors) ==
            [score   |-> SumSeq([i \in 1..Len(factors) |-> factors[i].delta]),
             factors |-> factors]
    IN  Scored(RiskFactors(action_step, strategy, account_risk))

score_action(action_step, strategy, account_risk) ==
    LET Scored(factors) ==
            [score   |-> Min(Bind([i \in 1..Len(factors) |-> factors[i].delta], SumSeq),
                             100),
             factors |-> factors]
    IN  Bind(RiskFactors(action_step, strategy, account_risk), Scored)

\* get_verdict with both thresholds inclusive on the lower verdict
get_verdictInclusive(risk_score) ==
    IF risk_score <= AUTO_EXECUTE_THRESHOLD THEN AUTO_EXECUTE
    ELSE IF risk_score <= HOLD_THRESHOLD THEN HUMAN_APPROVAL_REQUIRED
    ELSE HOLD_FOR_REVIEW

get_verdict(risk_score) ==
    IF risk_score < AUTO_EXECUTE_THRESHOLD THEN AUTO_EXECUTE
    ELSE IF risk_score < HOLD_THRESHOLD THEN HUMAN_APPROVAL_REQUIRED
    ELSE HOLD_FOR_REVIEW

\* StepsOf giving a strategy without steps one default step
StepsOfPadded(strategy) ==
    IF Get(Get(strategy, "strategy", EmptyDict), "steps", <<>>) = <<>>
    THEN <<[step |-> 1]>>
    ELSE Get(Get(strategy, "strategy", EmptyDict), "steps", <<>>)

StepsOf(strategy) == Get(Get(strategy, "strategy", EmptyDict), "steps", <<>>)

StepDecision(step, strategy, account_risk) ==
    LET Decided(sa) ==
            [step         |-> Get(step, "step", 0),
             action       |-> Get(step, "action", "None"),
             risk_score   |-> sa.score,
             verdict      |-> get_verdict(sa.score),
             risk_factors |-> sa.factors]
    IN  Bind(score_action(step, strategy, account_risk), Decided)

RECURSIVE WorstScore(_, _)
\* the loop keeping the score of the first step instead of the highest
WorstScoreFirst(step_decisions, worst_score) ==
    IF step_decisions = <<>> THEN worst_score
    ELSE step_decisions[1].risk_score

\* the loop keeping the score of the last step instead of the highest
WorstScoreLast(step_decisions, worst_score) ==
    IF step_decisions = <<>> THEN worst_score
    ELSE step_decisions[Len(step_decisions)].risk_score

WorstScore(step_decisions, worst_score) ==
    IF step_decisions = <<>> THEN worst_score
    ELSE WorstScore(Tail(step_decisions),
                    IF Head(step_decisions).risk_score > worst_score
                    THEN Head(step_decisions).risk_score ELSE worst_score)

\* evaluate_strategy taking the verdict of the first step for the whole
\* strategy
evaluate_strategyFirstVerdict(strategy, account_risk) ==
    LET Decision(step_decisions, worst_score) ==
            [account_id         |-> strategy.account_id,
             account_name       |-> strategy.account_name,
             strategy_type      |->
                 Get(Get(strategy, "strategy", EmptyDict), "type", "None"),
             estimated_recovery |-> Get(strategy, "estimated_recovery", 0),
             overall_risk_score |-> worst_score,
             overall_verdict    |->
                 IF step_decisions = <<>> THEN get_verdict(worst_score)
                 ELSE step_decisions[1].verdict,
             step_decisions     |-> step_decisions,
             strategy           |-> strategy,
             account_risk       |-> account_risk]
        Worst(step_decisions) == Decision(step_decisions, WorstScore(step_decisions, 0))
        Steps(steps) ==
            Worst([i \in 1..Len(steps) |->
                      StepDecision(steps[i], strategy, account_risk)])
    IN  Steps(StepsOf(strategy))

evaluate_strategy(strategy, account_risk) ==
    LET Worst(step_decisions) ==
            LET Decision(worst_score) ==
                    [account_id         |-> strategy.account_id,
                     account_name       |-> strategy.account_name,
                     strategy_type      |->
                         Get(Get(strategy, "strategy", EmptyDict), "type", "None"),
                     estimated_recovery |-> Get(strategy, "estimated_recovery", 0),
                     overall_risk_score |-> worst_score,
                     overall_verdict    |-> get_verdict(worst_score),
                     step_decisions     |-> step_decisions,
                     strategy           |-> strategy,
                     account_risk       |-> account_risk]
            IN  Bind(WorstScore(step_decisions, 0), Decision)
        Steps(steps) ==
            Bind([i \in 1..Len(steps) |->
                     StepDecision(steps[i], strategy, account_risk)], Worst)
    IN  Bind(StepsOf(strategy), Steps)

\* ------------------------------------------------------------------------
\* Inputs: the accounts of a request, what the risk collaborator measures
\* for an account, and the recovery plans the strategy collaborator drafts
\* ------------------------------------------------------------------------
Accounts == {"acc_001", "acc_002"}

AccountName == [acc_001 |-> "TechCorp Solutions", acc_002 |-> "InnovateLabs"]

Notes == {"reviewed"}

\* (risk score, recovery probability) pairs in ten-thousandths
RiskSignals ==
    {[risk_score |-> 3000, recovery_probability |-> 6500],
     [risk_score |-> 7000, recovery_probability |-> 6500],
     [risk_score |-> 7500, recovery_probability |-> 6500]}

StrategyTemplates ==
    {[type |-> "general_outreach", priority |-> "low", estimated_recovery |-> 5000,
      steps |-> <<[step |-> 1, action |-> "email"]>>],
     [type |-> "invoice_recovery", priority |-> "medium", estimated_recovery |-> 45000,
      steps |-> <<[step |-> 1, action |-> "email", tone |-> "urgent"],
                  [step |-> 2, action |-> "slack"]>>],
     [type |-> "internal_escalation", priority |-> "high", estimated_recovery |-> 5000,
      steps |-> <<[step |-> 1, action |-> "escalation"]>>]}

SeqsUpTo(S, n) == UNION {[1..k -> S] : k \in 0..n}

\* ------------------------------------------------------------------------
\* Collaborators upstream of the gate
\* ------------------------------------------------------------------------
\* DataAgent._fetch_risk_signals: one signal bundle per requested account
FetchRiskSignals(accounts) ==
    [i \in 1..Len(accounts) |->
        [account_id |-> accounts[i], account_name |-> AccountName[accounts[i]]]]

HIGH_THRESHOLD == 7000

MEDIUM_THRESHOLD == 4000

ESCALATION_THRESHOLD == 8500

\* _get_risk_level that calls an account HIGH only from 0.80 on
get_risk_levelStrict(score) ==
    IF score >= 8000 THEN "HIGH"
    ELSE IF score >= MEDIUM_THRESHOLD THEN "MEDIUM" ELSE "LOW"

get_risk_level(score) ==
    IF score >= HIGH_THRESHOLD THEN "HIGH"
    ELSE IF score >= MEDIUM_THRESHOLD THEN "MEDIUM" ELSE "LOW"

\* RiskAgent._assess_risks: one result per bundle, in order; signals[i] is
\* what _calculate_risk_score and _calculate_recovery_probability measure
AssessRisks(data, signals) ==
    [i \in 1..Len(data) |->
        [account_id           |-> data[i].account_id,
         account_name         |-> data[i].account_name,
         risk_score           |-> signals[i].risk_score,
         risk_level           |-> get_risk_level(signals[i].risk_score),
         recovery_probability |-> signals[i].recovery_probability,
         escalation_required  |-> signals[i].risk_score > ESCALATION_THRESHOLD]]

\* StrategyAgent._create_strategies: one strategy per account handed over
CreateStrategies(accounts, templates) ==
    [i \in 1..Len(accounts) |->
        [account_id         |-> accounts[i].account_id,
         account_name       |-> accounts[i].account_name,
         risk_level         |-> accounts[i].risk_level,
         strategy           |-> [type |-> templates[i].type, steps |-> templates[i].steps],
         estimated_recovery |-> templates[i].estimated_recovery,
         priority           |-> templates[i].priority]]

\* ------------------------------------------------------------------------
\* ExecutionAgent
\* ------------------------------------------------------------------------
APPROVAL_THRESHOLD_AMOUNT == 10000

requires_approval(strategy) ==
    \/ Get(strategy, "estimated_recovery", 0) > APPROVAL_THRESHOLD_AMOUNT
    \/ Get(strategy, "priority", "None") = "high"

StepSucceeds(action) ==
    action \in {"email", "slack", "offer_incentive", "offer", "calendar_invite"}

execute_strategy(strategy) ==
    LET Logged(execution_log) ==
            [account_id    |-> strategy.account_id,
             account_name  |-> strategy.account_name,
             execution_log |-> execution_log,
             status        |-> IF \A i \in 1..Len(execution_log) :
                                      execution_log[i].status = "success"
                               THEN "completed" ELSE "partial"]
        Steps(steps) ==
            Logged([i \in 1..Len(steps) |->
                      [step   |-> Get(steps[i], "step", 0),
                       action |-> Get(steps[i], "action", "None"),
                       status |-> IF StepSucceeds(Get(steps[i], "action", "None"))
                                  THEN "success" ELSE "failed"]])
    IN  Steps(StepsOf(strategy))

RECURSIVE QueueForApproval(_, _)
\* ExecutionAgent.process, up to its await: the strategies that need
\* sign-off are stored in approval_queue under their account id
QueueForApproval(queue, strategies) ==
    IF strategies = <<>> THEN queue
    ELSE LET s == Head(strategies)
             q == IF requires_approval(s)
                  THEN [a \in DOMAIN queue \cup {s.account_id} |->
                           IF a = s.account_id THEN s ELSE queue[a]]
                  ELSE queue
         IN  QueueForApproval(q, Tail(strategies))

\* ExecutionAgent.process, after its await: the summary it returns
ProcessResult(strategies) ==
    LET NeedsApproval(s) == requires_approval(s)
        AutoExecute(s)   == ~requires_approval(s)
        Summary(needs_approval, executed) ==
            [auto_executed    |-> Len(executed),
             pending_approval |-> Len(needs_approval),
             failed           |-> 0,
             results          |-> executed,
             errors           |-> <<>>]
        Gathered(auto_execute) ==
            Summary(SelectSeq(strategies, NeedsApproval),
                    [i \in 1..Len(auto_execute) |-> execute_strategy(auto_execute[i])])
    IN  Gathered(SelectSeq(strategies, AutoExecute))

\* ------------------------------------------------------------------------
\* RevenuePilotOrchestrator: state
\* ------------------------------------------------------------------------
VARIABLES
    guardian_approval_queue,  \* decisions with verdict HUMAN_APPROVAL_REQUIRED
    guardian_hold_queue,      \* decisions with verdict HOLD_FOR_REVIEW
    approval_queue,           \* ExecutionAgent.approval_queue: account id -> strategy
    runs,                     \* the calls of process_revenue_signals and their locals
    calls,                    \* the calls of approve_guardian_decision and their locals
    dispatched,               \* the message the step just taken sent to the
                              \* execution collaborator, if it sent one
    requested,                \* how many accounts the requests so far held
    last_outcome,             \* the outcome the step just taken returned from
                              \* approve_guardian_decision, if it returned one
    last_reconcile,           \* the reconcile call no step of a run has followed yet
    last_result,              \* what the step just taken returned or raised from
                              \* process_revenue_signals, if it ended the call
    guardian_call             \* a direct call of a GuardianAgent method or of
                              \* _run_guardian: its arguments and what it gave;
                              \* also what get_guardian_queue returned, if the
                              \* step just taken was a call of it

vars == <<guardian_approval_queue, guardian_hold_queue, approval_queue,
          runs, calls, dispatched, requested, last_outcome,
          last_reconcile, last_result, guardian_call>>

\* no direct Guardian call is being looked at
NoCall == [pc |-> "none"]

IdleRun ==
    [pc |-> "idle", accounts |-> <<>>, data_task |-> <<>>, risk_results |-> <<>>,
     risk_by_account |-> EmptyDict, high_risk_accounts |-> <<>>,
     strategies |-> <<>>, auto_execute |-> <<>>,
     guardian_summary |-> EmptyDict, step5_log |-> EmptyDict,
     execution_results |-> EmptyDict]

IdleCall ==
    [pc |-> "idle", account_id |-> "", approved |-> FALSE, approver_notes |-> "",
     target |-> <<>>]

Init ==
    /\ guardian_approval_queue = <<>>
    /\ guardian_hold_queue = <<>>
    /\ approval_queue = EmptyDict
    /\ runs = [r \in RunIds |-> IdleRun]
    /\ calls = [c \in CallIds |-> IdleCall]
    /\ dispatched = <<>>
    /\ requested = 0
    /\ last_outcome = <<>>
    /\ last_reconcile = <<>>
    /\ last_result = <<>>
    /\ guardian_call = NoCall

\* _dispatch_agent: the message put on message_queue for the execution
\* collaborator, with the call that sent it
Message(sender, id, strategies) ==
    [sender |-> sender, id |-> id, receiver |-> "execution",
     content |-> [strategies |-> strategies, action |-> "execute_outreach"]]

\* the calls made so far, of either entry point
CallsMade ==
    Cardinality({r \in RunIds : runs[r].pc # "idle"})
    + Cardinality({c \in CallIds : calls[c].pc # "idle"})

\* ------------------------------------------------------------------------
\* _run_guardian
\* ------------------------------------------------------------------------
\* GuardianBucket with the first test taken against the hold verdict
GuardianBucketLax(verdict) ==
    IF verdict # HOLD_FOR_REVIEW THEN "auto_execute"
    ELSE "held"

\* the branch of the if / elif / else that routes a decision
GuardianBucket(verdict) ==
    IF verdict = AUTO_EXECUTE THEN "auto_execute"
    ELSE IF verdict = HUMAN_APPROVAL_REQUIRED THEN "approval_required"
    ELSE "held"

\* Route without the approval_required.append of the elif branch
RouteMiscounts(acc, decision) ==
    LET bucket == GuardianBucket(decision.overall_verdict)
    IN  IF bucket = "auto_execute"
        THEN [acc EXCEPT !.auto_execute = Append(@, decision.strategy)]
        ELSE IF bucket = "approval_required"
        THEN [acc EXCEPT !.guardian_approval_queue = Append(@, decision)]
        ELSE [acc EXCEPT !.guardian_hold_queue = Append(@, decision),
                         !.held = Append(@, decision)]

\* Route without the guardian_hold_queue.append of the else branch
RouteLosesHeld(acc, decision) ==
    LET bucket == GuardianBucket(decision.overall_verdict)
    IN  IF bucket = "auto_execute"
        THEN [acc EXCEPT !.auto_execute = Append(@, decision.strategy)]
        ELSE IF bucket = "approval_required"
        THEN [acc EXCEPT !.guardian_approval_queue = Append(@, decision),
                         !.approval_required = Append(@, decision)]
        ELSE [acc EXCEPT !.held = Append(@, decision)]

\* Route with the two queues exchanged
RouteSwapsQueues(acc, decision) ==
    LET bucket == GuardianBucket(decision.overall_verdict)
    IN  IF bucket = "auto_execute"
        THEN [acc EXCEPT !.auto_execute = Append(@, decision.strategy)]
        ELSE IF bucket = "approval_required"
        THEN [acc EXCEPT !.guardian_hold_queue = Append(@, decision),
                         !.approval_required = Append(@, decision)]
        ELSE [acc EXCEPT !.guardian_approval_queue = Append(@, decision),
                         !.held = Append(@, decision)]

\* the body of the if / elif / else: where a decision is put
Route(acc, decision) ==
    LET bucket == GuardianBucket(decision.overall_verdict)
    IN  IF bucket = "auto_execute"
        THEN [acc EXCEPT !.auto_execute = Append(@, decision.strategy)]
        ELSE IF bucket = "approval_required"
        THEN [acc EXCEPT !.guardian_approval_queue = Append(@, decision),
                         !.approval_required = Append(@, decision)]
        ELSE [acc EXCEPT !.guardian_hold_queue = Append(@, decision),
                         !.held = Append(@, decision)]

RECURSIVE GuardianLoop(_, _, _)
\* for strategy in strategies: look up the risk context, evaluate, route
\* GuardianLoop whose step scores grow by 0.05 once a Guardian queue holds
\* a decision
GuardianLoopQueueAware(strategies, risk_by_account, acc) ==
    IF strategies = <<>> THEN acc
    ELSE LET strategy     == Head(strategies)
             account_risk == Get(risk_by_account, strategy.account_id, EmptyDict)
             Aged(d) ==
                 IF acc.guardian_approval_queue = <<>> /\ acc.guardian_hold_queue = <<>>
                 THEN d
                 ELSE [d EXCEPT !.step_decisions =
                          [i \in 1..Len(d.step_decisions) |->
                              [d.step_decisions[i] EXCEPT
                                  !.risk_score = Min(@ + 5, 100)]]]
         IN  GuardianLoop(Tail(strategies), risk_by_account,
                          Route(acc, Aged(evaluate_strategy(strategy, account_risk))))

GuardianLoop(strategies, risk_by_account, acc) ==
    IF strategies = <<>> THEN acc
    ELSE LET strategy     == Head(strategies)
             account_risk == Get(risk_by_account, strategy.account_id, EmptyDict)
             Routed(decision) ==
                 LET Rest(routed) ==
                         GuardianLoop(Tail(strategies), risk_by_account, routed)
                 IN  Bind(Route(acc, decision), Rest)
         IN  Bind(evaluate_strategy(strategy, account_risk), Routed)

SnapshotEntry(d) ==
    [account_id |-> d.account_id, account_name |-> d.account_name,
     risk_score |-> d.overall_risk_score, verdict |-> d.overall_verdict,
     estimated_recovery |-> d.estimated_recovery]

\* run_guardian whose snapshot lists the two queues instead of the decisions
\* this call queued
run_guardianSnapshotsQueues(strategies, risk_by_account, approval_q, hold_q) ==
    LET Snapshot(queued) == [i \in 1..Len(queued) |-> SnapshotEntry(queued[i])]
        Summary(out) ==
            [auto_execute |-> out.auto_execute,
             guardian_approval_queue |-> out.guardian_approval_queue,
             guardian_hold_queue |-> out.guardian_hold_queue,
             summary |->
                [evaluated |-> Len(strategies),
                 auto_executed |-> Len(out.auto_execute),
                 pending_human_approval |-> Len(out.approval_required),
                 held_for_review |-> Len(out.held),
                 approval_queue_snapshot |->
                     Snapshot(out.guardian_approval_queue \o out.guardian_hold_queue)]]
    IN  Summary(GuardianLoop(strategies, risk_by_account,
                   [auto_execute |-> <<>>, approval_required |-> <<>>, held |-> <<>>,
                    guardian_approval_queue |-> approval_q,
                    guardian_hold_queue |-> hold_q]))

run_guardian(strategies, risk_by_account, approval_q, hold_q) ==
    LET Snapshot(queued) == [i \in 1..Len(queued) |-> SnapshotEntry(queued[i])]
        Summary(out) ==
            [auto_execute |-> out.auto_execute,
             guardian_approval_queue |-> out.guardian_approval_queue,
             guardian_hold_queue |-> out.guardian_hold_queue,
             summary |->
                [evaluated |-> Len(strategies),
                 auto_executed |-> Len(out.auto_execute),
                 pending_human_approval |-> Len(out.approval_required),
                 held_for_review |-> Len(out.held),
                 approval_queue_snapshot |->
                     Snapshot(out.approval_required \o out.held)]]
    IN  Bind(GuardianLoop(strategies, risk_by_account,
                   [auto_execute |-> <<>>, approval_required |-> <<>>, held |-> <<>>,
                    guardian_approval_queue |-> approval_q,
                    guardian_hold_queue |-> hold_q]), Summary)

\* ------------------------------------------------------------------------
\* process_revenue_signals: one action per stretch of code between awaits.
\* The locals of a call are dropped when it returns or raises.
\* ------------------------------------------------------------------------
\* the call: runs up to the await of the data collaborator
StartRun(r, accounts) ==
    /\ runs[r].pc = "idle"
    /\ IF r = 1 THEN TRUE ELSE runs[r - 1].pc # "idle"
    /\ CallsMade < MaxCalls
    /\ requested + Len(accounts) <= MaxRequested
    /\ requested' = requested + Len(accounts)
    /\ runs' = [runs EXCEPT ![r] = [@ EXCEPT !.pc = "FETCH", !.accounts = accounts]]
    /\ dispatched' = <<>>
    /\ last_outcome' = <<>>
    /\ last_reconcile' = <<>>
    /\ guardian_call' = NoCall
    /\ last_result' = <<>>
    /\ UNCHANGED <<guardian_approval_queue, guardian_hold_queue, approval_queue,
                   calls>>

\* the data collaborator returns; runs up to the await of the risk collaborator
\* DataReturns going on to the strategy collaborator without the risk stage
DataReturnsSkipsRisk(r) ==
    /\ runs[r].pc = "FETCH"
    /\ runs' = [runs EXCEPT ![r] =
          [@ EXCEPT !.pc = "PLAN", !.data_task = FetchRiskSignals(runs[r].accounts)]]
    /\ dispatched' = <<>>
    /\ last_outcome' = <<>>
    /\ last_reconcile' = <<>>
    /\ guardian_call' = NoCall
    /\ last_result' = <<>>
    /\ UNCHANGED <<guardian_approval_queue, guardian_hold_queue, approval_queue,
                   calls, requested>>

DataReturns(r) ==
    /\ runs[r].pc = "FETCH"
    /\ runs' = [runs EXCEPT ![r] =
          [@ EXCEPT !.pc = "ASSESS", !.data_task = FetchRiskSignals(runs[r].accounts)]]
    /\ dispatched' = <<>>
    /\ last_outcome' = <<>>
    /\ last_reconcile' = <<>>
    /\ guardian_call' = NoCall
    /\ last_result' = <<>>
    /\ UNCHANGED <<guardian_approval_queue, guardian_hold_queue, approval_queue,
                   calls, requested>>

HIGH_RISK_SCORE == 7000

\* HighRisk keeping an account at exactly 0.70
HighRiskInclusive(r) == r.risk_score >= HIGH_RISK_SCORE

HighRisk(r) == r.risk_score > HIGH_RISK_SCORE

\* risk_by_account = {r["account_id"]: r for r in risk_results}: the last
\* result of an account wins
RiskByAccount(risk_results) ==
    [a \in {risk_results[i].account_id : i \in 1..Len(risk_results)} |->
        risk_results[CHOOSE i \in 1..Len(risk_results) :
            /\ risk_results[i].account_id = a
            /\ \A j \in (i + 1)..Len(risk_results) : risk_results[j].account_id # a]]

\* the risk collaborator returns; runs up to the await of the strategy
\* collaborator
RiskReturns(r, signals) ==
    /\ runs[r].pc = "ASSESS"
    /\ Len(signals) = Len(runs[r].data_task)
    /\ LET Assessed(risk_results) ==
               runs' = [runs EXCEPT ![r] =
                  [@ EXCEPT !.pc = "PLAN", !.risk_results = risk_results,
                            !.risk_by_account = RiskByAccount(risk_results),
                            !.high_risk_accounts = SelectSeq(risk_results, HighRisk)]]
       IN  Assessed(AssessRisks(runs[r].data_task, signals))
    /\ dispatched' = <<>>
    /\ last_outcome' = <<>>
    /\ last_reconcile' = <<>>
    /\ guardian_call' = NoCall
    /\ last_result' = <<>>
    /\ UNCHANGED <<guardian_approval_queue, guardian_hold_queue, approval_queue,
                   calls, requested>>

\* the strategy collaborator returns; _run_guardian gates the strategies and
\* the run goes on up to the await inside ExecutionAgent.process
StrategyReturns(r, templates) ==
    /\ runs[r].pc = "PLAN"
    /\ Len(templates) = Len(runs[r].high_risk_accounts)
    /\ \E strategies \in {CreateStrategies(runs[r].high_risk_accounts, templates)} :
       \E gate \in {run_guardian(strategies, runs[r].risk_by_account,
                         guardian_approval_queue, guardian_hold_queue)} :
          /\ guardian_approval_queue' = gate.guardian_approval_queue
          /\ guardian_hold_queue' = gate.guardian_hold_queue
          /\ approval_queue' = QueueForApproval(approval_queue, gate.auto_execute)
          /\ dispatched' =
                <<Message("process_revenue_signals", r, gate.auto_execute)>>
          /\ runs' = [runs EXCEPT ![r] =
                [@ EXCEPT !.pc = "EXECUTE", !.strategies = strategies,
                          !.auto_execute = gate.auto_execute,
                          !.guardian_summary = gate.summary,
                          !.step5_log =
                              [auto_approved |-> Len(gate.auto_execute),
                               pending_human_approval |->
                                   Len(gate.guardian_approval_queue),
                               held |-> Len(gate.guardian_hold_queue)]]]
    /\ last_outcome' = <<>>
    /\ last_reconcile' = <<>>
    /\ guardian_call' = NoCall
    /\ last_result' = <<>>
    /\ UNCHANGED <<calls, requested>>

\* ExecutionReturns that awaits the execution collaborator once more
\* instead of going on to the audit collaborator
ExecutionReturnsAgain(r) ==
    /\ runs[r].pc = "EXECUTE"
    /\ runs' = [runs EXCEPT ![r] =
          [@ EXCEPT !.execution_results = ProcessResult(runs[r].auto_execute)]]
    /\ dispatched' = <<>>
    /\ last_outcome' = <<>>
    /\ last_reconcile' = <<>>
    /\ guardian_call' = NoCall
    /\ last_result' = <<>>
    /\ UNCHANGED <<guardian_approval_queue, guardian_hold_queue, approval_queue,
                   calls, requested>>

\* ExecutionAgent.process returns; runs up to the await of the audit
\* collaborator
ExecutionReturns(r) ==
    /\ runs[r].pc = "EXECUTE"
    /\ runs' = [runs EXCEPT ![r] =
          [@ EXCEPT !.pc = "AUDIT",
                    !.execution_results = ProcessResult(runs[r].auto_execute)]]
    /\ dispatched' = <<>>
    /\ last_outcome' = <<>>
    /\ last_reconcile' = <<>>
    /\ guardian_call' = NoCall
    /\ last_result' = <<>>
    /\ UNCHANGED <<guardian_approval_queue, guardian_hold_queue, approval_queue,
                   calls, requested>>

\* the content of the message process_revenue_signals sends to the audit
\* collaborator
AuditPayload(run) ==
    [data       |-> run.data_task,
     risk       |-> run.risk_results,
     strategies |-> run.strategies,
     guardian   |-> run.guardian_summary,
     execution  |-> run.execution_results]

HighLevel(r) == Get(r, "risk_level", "None") = "HIGH"

MediumLevel(r) == Get(r, "risk_level", "None") = "MEDIUM"

HighPriority(s) == Get(s, "priority", "None") = "high"

\* AuditAgent.process: what it returns for the workflow data of a run; the
\* audit id stands for the random one, the running metrics are left out
AuditProcess(workflow_data, audit_id) ==
    [audit_id |-> audit_id,
     report |->
        [executive_summary |->
            [accounts_analyzed |-> Len(workflow_data.risk),
             high_risk_accounts |-> Len(SelectSeq(workflow_data.risk, HighLevel)),
             medium_risk_accounts |-> Len(SelectSeq(workflow_data.risk, MediumLevel)),
             immediate_actions_required |->
                 Len(SelectSeq(workflow_data.strategies, HighPriority))]]]

\* analyze_revenue_risk: the response of /api/analyze for the result of a
\* run; result.get("guardian") is <<>> when the key is absent
analyze_revenue_risk(result) ==
    [status |-> "success", data |-> result,
     guardian_summary |->
        IF "guardian" \in DOMAIN result THEN <<result.guardian>> ELSE <<>>]

\* the audit collaborator returns its payload and the run returns it
AuditReturns(r) ==
    /\ runs[r].pc = "AUDIT"
    /\ runs' = [runs EXCEPT ![r] = [IdleRun EXCEPT !.pc = "finished"]]
    /\ guardian_call' = NoCall
    /\ last_result' = <<[run |-> r, status |-> "returned",
                         audit_log |-> AuditProcess(AuditPayload(runs[r]), r)]>>
    /\ dispatched' = <<>>
    /\ last_outcome' = <<>>
    /\ last_reconcile' = <<>>
    /\ UNCHANGED <<guardian_approval_queue, guardian_hold_queue, approval_queue,
                   calls, requested>>

\* CollaboratorRaises with the exception swallowed: the run goes on to the
\* audit collaborator
CollaboratorRaisesSwallowed(r) ==
    /\ runs[r].pc \in {"FETCH", "ASSESS", "PLAN", "EXECUTE", "AUDIT"}
    /\ runs' = [runs EXCEPT ![r] =
          [@ EXCEPT !.pc = IF runs[r].pc = "AUDIT" THEN "finished" ELSE "AUDIT"]]
    /\ guardian_call' = NoCall
    /\ last_result' = <<[run |-> r, status |-> "raised"]>>
    /\ dispatched' = <<>>
    /\ last_outcome' = <<>>
    /\ last_reconcile' = <<>>
    /\ UNCHANGED <<guardian_approval_queue, guardian_hold_queue, approval_queue,
                   calls, requested>>

\* CollaboratorRaises that takes the queued decisions back when the run
\* aborts after its GATE
CollaboratorRaisesRollsBack(r) ==
    /\ runs[r].pc \in {"FETCH", "ASSESS", "PLAN", "EXECUTE", "AUDIT"}
    /\ runs' = [runs EXCEPT ![r] = [IdleRun EXCEPT !.pc = "finished"]]
    /\ guardian_approval_queue' =
          IF runs[r].pc \in {"EXECUTE", "AUDIT"} THEN <<>> ELSE guardian_approval_queue
    /\ guardian_hold_queue' =
          IF runs[r].pc \in {"EXECUTE", "AUDIT"} THEN <<>> ELSE guardian_hold_queue
    /\ guardian_call' = NoCall
    /\ last_result' = <<[run |-> r, status |-> "raised"]>>
    /\ dispatched' = <<>>
    /\ last_outcome' = <<>>
    /\ last_reconcile' = <<>>
    /\ UNCHANGED <<approval_queue, calls, requested>>

\* a collaborator raises: the exception leaves process_revenue_signals
CollaboratorRaises(r) ==
    /\ runs[r].pc \in {"FETCH", "ASSESS", "PLAN", "EXECUTE", "AUDIT"}
    /\ runs' = [runs EXCEPT ![r] = [IdleRun EXCEPT !.pc = "finished"]]
    /\ guardian_call' = NoCall
    /\ last_result' = <<[run |-> r, status |-> "raised"]>>
    /\ dispatched' = <<>>
    /\ last_outcome' = <<>>
    /\ last_reconcile' = <<>>
    /\ UNCHANGED <<guardian_approval_queue, guardian_hold_queue, approval_queue,
                   calls, requested>>

\* ------------------------------------------------------------------------
\* approve_guardian_decision (reconcile)
\* ------------------------------------------------------------------------
CountOf(queue, account_id) ==
    Cardinality({i \in 1..Len(queue) : queue[i].account_id = account_id})

\* FirstMatch that reads the loop variable after the loop: the last item
\* when nothing matched
FirstMatchLeaksItem(queue, account_id) ==
    IF \E i \in 1..Len(queue) : queue[i].account_id = account_id
    THEN CHOOSE i \in 1..Len(queue) :
            /\ queue[i].account_id = account_id
            /\ \A j \in 1..(i - 1) : queue[j].account_id # account_id
    ELSE Len(queue)

\* index of the first item of the queue with this account id, 0 if none
FirstMatch(queue, account_id) ==
    IF \E i \in 1..Len(queue) : queue[i].account_id = account_id
    THEN CHOOSE i \in 1..Len(queue) :
            /\ queue[i].account_id = account_id
            /\ \A j \in 1..(i - 1) : queue[j].account_id # account_id
    ELSE 0

\* RemoveItem that filters out every decision of the item's account
RemoveItemsOfAccount(queue, i) ==
    LET Other(d) == d.account_id # queue[i].account_id
    IN  SelectSeq(queue, Other)

\* queue.remove(item) for the item found at index i
\* RemoveItem that leaves the found decision in the queue, to be taken
\* out after the await
RemoveItemDeferred(queue, i) == queue

RemoveItem(queue, i) == SubSeq(queue, 1, i - 1) \o SubSeq(queue, i + 1, Len(queue))

\* the search of both queues, the hold queue first
SearchQueuesHoldFirst(approval_q, hold_q, account_id) ==
    LET Found(i, j) ==
            IF j > 0
            THEN [target |-> <<hold_q[j]>>,
                  guardian_approval_queue |-> approval_q,
                  guardian_hold_queue |-> RemoveItem(hold_q, j)]
            ELSE IF i > 0
            THEN [target |-> <<approval_q[i]>>,
                  guardian_approval_queue |-> RemoveItem(approval_q, i),
                  guardian_hold_queue |-> hold_q]
            ELSE [target |-> <<>>,
                  guardian_approval_queue |-> approval_q,
                  guardian_hold_queue |-> hold_q]
    IN  Found(FirstMatch(approval_q, account_id), FirstMatch(hold_q, account_id))

\* the search of both queues, the approval queue first
SearchQueues(approval_q, hold_q, account_id) ==
    LET Found(i, j) ==
            IF i > 0
            THEN [target |-> <<approval_q[i]>>,
                  guardian_approval_queue |-> RemoveItem(approval_q, i),
                  guardian_hold_queue |-> hold_q]
            ELSE IF j > 0
            THEN [target |-> <<hold_q[j]>>,
                  guardian_approval_queue |-> approval_q,
                  guardian_hold_queue |-> RemoveItem(hold_q, j)]
            ELSE [target |-> <<>>,
                  guardian_approval_queue |-> approval_q,
                  guardian_hold_queue |-> hold_q]
    IN  Found(FirstMatch(approval_q, account_id), FirstMatch(hold_q, account_id))

\* ReconcilePath that does not look at approved
ReconcilePathIgnoresApproved(target, approved) ==
    IF target = <<>> THEN "not_found"
    ELSE "executed"

\* which of the three returns the call takes
ReconcilePath(target, approved) ==
    IF target = <<>> THEN "not_found"
    ELSE IF approved THEN "executed"
    ELSE "rejected"

NotFoundOutcome(account_id) == [status |-> "not_found", account_id |-> account_id]

RejectedOutcome(account_id, approver_notes, target) ==
    [status |-> "rejected", account_id |-> account_id,
     approver_notes |-> approver_notes,
     guardian_risk_score |-> target.overall_risk_score]

ExecutedOutcome(account_id, approver_notes, execution_result, target) ==
    [status |-> "executed", account_id |-> account_id, approved_by |-> "human",
     approver_notes |-> approver_notes, execution |-> execution_result,
     guardian_risk_score |-> target.overall_risk_score]

\* the call: search and removal, then the not-found or rejected return, or
\* the dispatch of the approved strategy up to the await inside
\* ExecutionAgent.process
Reconcile(c, account_id, approved, approver_notes) ==
    /\ calls[c].pc = "idle"
    /\ IF c = 1 THEN TRUE ELSE calls[c - 1].pc # "idle"
    /\ CallsMade < MaxCalls
    /\ \E found \in {SearchQueues(guardian_approval_queue, guardian_hold_queue,
                                   account_id)} :
        LET path  == ReconcilePath(found.target, approved)
            call  == [calls[c] EXCEPT !.account_id = account_id, !.approved = approved,
                                      !.approver_notes = approver_notes]
        IN /\ guardian_approval_queue' = found.guardian_approval_queue
           /\ guardian_hold_queue' = found.guardian_hold_queue
           /\ last_reconcile' =
                 <<[call |-> c, account_id |-> account_id, approved |-> approved,
                    approver_notes |-> approver_notes,
                    in_approval |-> CountOf(guardian_approval_queue, account_id),
                    in_hold |-> CountOf(guardian_hold_queue, account_id),
                    returned |-> path # "executed", raised |-> FALSE]>>
           /\ IF path = "not_found"
              THEN /\ calls' = [calls EXCEPT ![c] = [IdleCall EXCEPT !.pc = "finished"]]
                   /\ last_outcome' = <<NotFoundOutcome(account_id)>>
                   /\ dispatched' = <<>>
                   /\ UNCHANGED approval_queue
              ELSE IF path = "executed"
              THEN /\ calls' = [calls EXCEPT ![c] =
                         [call EXCEPT !.pc = "EXECUTE", !.target = found.target]]
                   /\ approval_queue' =
                         QueueForApproval(approval_queue, <<found.target[1].strategy>>)
                   /\ dispatched' = <<Message("approve_guardian_decision", c,
                                          <<found.target[1].strategy>>)>>
                   /\ last_outcome' = <<>>
              ELSE /\ calls' = [calls EXCEPT ![c] = [IdleCall EXCEPT !.pc = "finished"]]
                   /\ last_outcome' = <<RejectedOutcome(account_id, approver_notes,
                                            found.target[1])>>
                   /\ dispatched' = <<>>
                   /\ UNCHANGED approval_queue
    /\ guardian_call' = NoCall
    /\ last_result' = <<>>
    /\ UNCHANGED <<runs, requested>>

\* ReconcileExecutionReturns held back until no run is in flight
ReconcileExecutionReturnsAfterRuns(c) ==
    /\ calls[c].pc = "EXECUTE"
    /\ \A r \in RunIds : runs[r].pc \in {"idle", "finished"}
    /\ calls' = [calls EXCEPT ![c] = [IdleCall EXCEPT !.pc = "finished"]]
    /\ last_outcome' = <<ExecutedOutcome(calls[c].account_id, calls[c].approver_notes,
                             ProcessResult(<<calls[c].target[1].strategy>>),
                             calls[c].target[1])>>
    /\ last_reconcile' =
          IF last_reconcile # <<>> /\ last_reconcile[1].call = c
          THEN <<[last_reconcile[1] EXCEPT !.returned = TRUE]>>
          ELSE last_reconcile
    /\ dispatched' = <<>>
    /\ guardian_call' = NoCall
    /\ last_result' = <<>>
    /\ UNCHANGED <<guardian_approval_queue, guardian_hold_queue, approval_queue,
                   runs, requested>>

\* ExecutionAgent.process returns to the reconcile call, which returns the
\* executed outcome
ReconcileExecutionReturns(c) ==
    /\ calls[c].pc = "EXECUTE"
    /\ calls' = [calls EXCEPT ![c] = [IdleCall EXCEPT !.pc = "finished"]]
    /\ last_outcome' = <<ExecutedOutcome(calls[c].account_id, calls[c].approver_notes,
                             ProcessResult(<<calls[c].target[1].strategy>>),
                             calls[c].target[1])>>
    /\ last_reconcile' =
          IF last_reconcile # <<>> /\ last_reconcile[1].call = c
          THEN <<[last_reconcile[1] EXCEPT !.returned = TRUE]>>
          ELSE last_reconcile
    /\ dispatched' = <<>>
    /\ guardian_call' = NoCall
    /\ last_result' = <<>>
    /\ UNCHANGED <<guardian_approval_queue, guardian_hold_queue, approval_queue,
                   runs, requested>>

\* the execution collaborator raises: the exception leaves the reconcile call
ReconcileExecutionRaises(c) ==
    /\ calls[c].pc = "EXECUTE"
    /\ calls' = [calls EXCEPT ![c] = [IdleCall EXCEPT !.pc = "finished"]]
    /\ last_reconcile' =
          IF last_reconcile # <<>> /\ last_reconcile[1].call = c
          THEN <<[last_reconcile[1] EXCEPT !.returned = TRUE, !.raised = TRUE]>>
          ELSE last_reconcile
    /\ dispatched' = <<>>
    /\ last_outcome' = <<>>
    /\ guardian_call' = NoCall
    /\ last_result' = <<>>
    /\ UNCHANGED <<guardian_approval_queue, guardian_hold_queue, approval_queue,
                   runs, requested>>

\* ------------------------------------------------------------------------
\* get_guardian_queue
\* ------------------------------------------------------------------------
get_guardian_queue(approval_q, hold_q) ==
    [pending_approval |->
        [i \in 1..Len(approval_q) |->
            [account_id         |-> approval_q[i].account_id,
             account_name       |-> approval_q[i].account_name,
             risk_score         |-> approval_q[i].overall_risk_score,
             risk_level         |-> Get(approval_q[i].account_risk, "risk_level", "None"),
             estimated_recovery |-> approval_q[i].estimated_recovery,
             strategy_type      |-> approval_q[i].strategy_type,
             step_decisions     |-> approval_q[i].step_decisions,
             verdict            |-> approval_q[i].overall_verdict]],
     held_for_review |->
        [i \in 1..Len(hold_q) |->
            [account_id         |-> hold_q[i].account_id,
             account_name       |-> hold_q[i].account_name,
             risk_score         |-> hold_q[i].overall_risk_score,
             estimated_recovery |-> hold_q[i].estimated_recovery,
             verdict            |-> hold_q[i].overall_verdict]]]

\* get_guardian_queue that empties the approval queue it has listed
GetGuardianQueueDrains ==
    /\ guardian_call' =
          [pc |-> "returned", method |-> "get_guardian_queue",
           result |-> <<get_guardian_queue(guardian_approval_queue,
                                           guardian_hold_queue)>>]
    /\ guardian_approval_queue' = <<>>
    /\ dispatched' = <<>>
    /\ last_outcome' = <<>>
    /\ last_reconcile' = <<>>
    /\ last_result' = <<>>
    /\ UNCHANGED <<guardian_hold_queue, approval_queue, runs, calls, requested>>

\* the call: no await, one step
GetGuardianQueue ==
    /\ guardian_call' =
          [pc |-> "returned", method |-> "get_guardian_queue",
           result |-> <<get_guardian_queue(guardian_approval_queue,
                                           guardian_hold_queue)>>]
    /\ dispatched' = <<>>
    /\ last_outcome' = <<>>
    /\ last_reconcile' = <<>>
    /\ last_result' = <<>>
    /\ UNCHANGED <<guardian_approval_queue, guardian_hold_queue, approval_queue,
                   runs, calls, requested>>

\* ------------------------------------------------------------------------
\* Specification
\* ------------------------------------------------------------------------
Next ==
    \/ \E r \in RunIds : \E accounts \in SeqsUpTo(Accounts, MaxAccounts) :
          StartRun(r, accounts)
    \/ \E r \in RunIds : DataReturns(r)
    \/ \E r \in RunIds : \E signals \in SeqsUpTo(RiskSignals, MaxAccounts) :
          RiskReturns(r, signals)
    \/ \E r \in RunIds : \E templates \in SeqsUpTo(StrategyTemplates, MaxAccounts) :
          StrategyReturns(r, templates)
    \/ \E r \in RunIds : ExecutionReturns(r)
    \/ \E r \in RunIds : AuditReturns(r)
    \/ \E r \in RunIds : CollaboratorRaises(r)
    \/ \E c \in CallIds : \E account_id \in Accounts : \E approved \in BOOLEAN :
          \E approver_notes \in Notes :
             Reconcile(c, account_id, approved, approver_notes)
    \/ \E c \in CallIds : ReconcileExecutionReturns(c)
    \/ \E c \in CallIds : ReconcileExecutionRaises(c)
    \/ GetGuardianQueue

Spec == Init /\ [][Next]_vars

\* The behaviours in which no collaborator raises and every collaborator
\* call returns: the event loop resumes a coroutine whose await has
\* completed.  The risk collaborator measures an account below or above
\* 0.70.
ReturningSignals == {s \in RiskSignals : s.risk_score # HIGH_RISK_SCORE}

ReturningNext ==
    \/ \E r \in RunIds : \E accounts \in SeqsUpTo(Accounts, MaxAccounts) :
          StartRun(r, accounts)
    \/ \E r \in RunIds : DataReturns(r)
    \/ \E r \in RunIds : \E signals \in SeqsUpTo(ReturningSignals, MaxAccounts) :
          RiskReturns(r, signals)
    \/ \E r \in RunIds : \E templates \in SeqsUpTo(StrategyTemplates, MaxAccounts) :
          StrategyReturns(r, templates)
    \/ \E r \in RunIds : ExecutionReturns(r)
    \/ \E r \in RunIds : AuditReturns(r)
    \/ \E c \in CallIds : \E account_id \in Accounts : \E approved \in BOOLEAN :
          \E approver_notes \in Notes :
             Reconcile(c, account_id, approved, approver_notes)
    \/ \E c \in CallIds : ReconcileExecutionReturns(c)

CollaboratorsReturn ==
    /\ \A r \in RunIds :
          /\ WF_vars(DataReturns(r))
          /\ WF_vars(\E signals \in SeqsUpTo(ReturningSignals, MaxAccounts) :
                        RiskReturns(r, signals))
          /\ WF_vars(\E templates \in SeqsUpTo(StrategyTemplates, MaxAccounts) :
                        StrategyReturns(r, templates))
          /\ WF_vars(ExecutionReturns(r))
          /\ WF_vars(AuditReturns(r))
    /\ \A c \in CallIds : WF_vars(ReconcileExecutionReturns(c))

SpecReturning == Init /\ [][ReturningNext]_vars /\ CollaboratorsReturn

\* ------------------------------------------------------------------------
\* Direct calls of GuardianAgent: the arguments a caller can pass and what
\* the Python code does with them.  A field that holds a value of the wrong
\* type is left out of the dict and listed in `malformed` with what it holds.
\* ------------------------------------------------------------------------
orchestrator_vars ==
    <<guardian_approval_queue, guardian_hold_queue, approval_queue, runs, calls,
      dispatched, requested, last_outcome, last_reconcile, last_result>>

\* steps of a strategy handed to evaluate_strategy
MaxSteps == 2

\* risk scores, in hundredths
Scores == 0..100

ActionKinds ==
    {"email", "slack", "crm_update", "escalation", "offer_incentive", "offer",
     "late_fee_waiver", "calendar_invite"}

Tones == {"friendly_reminder", "urgent", "escalated"}

\* a step without an action key, steps without a tone, steps with a tone
ScoredSteps ==
    {[step |-> 1]}
    \cup {[step |-> 1, action |-> k] : k \in ActionKinds}
    \cup {[step |-> 1, action |-> k, tone |-> t] : k \in ActionKinds, t \in Tones}

ScoredStrategies ==
    {[account_id |-> "acc_001", account_name |-> "TechCorp Solutions"]}
    \cup {[account_id |-> "acc_001", account_name |-> "TechCorp Solutions",
           estimated_recovery |-> v] : v \in {5000, 10000, 45000, 50000, 60000}}

\* the empty context and the risk records of the risk collaborator
Contexts ==
    {EmptyDict}
    \cup {[risk_level |-> l, escalation_required |-> e, recovery_probability |-> p] :
            l \in {"LOW", "MEDIUM", "HIGH"}, e \in BOOLEAN,
            p \in {2000, 3000, 4000, 5000, 6500}}

OptionalFields ==
    {"tone", "estimated_recovery", "risk_level", "escalation_required",
     "recovery_probability"}

\* what a malformed field holds: None, the string "n/a", the list ["n/a"]
MalformedKinds == {"null", "string", "list"}

MalformedMaps == UNION {[F -> MalformedKinds] : F \in SUBSET OptionalFields}

\* the dict without the keys listed
Drop(d, keys) == [k \in DOMAIN d \ keys |-> d[k]]

\* bool(value) of a malformed value
Truthy(kind) == kind \in {"string", "list"}

\* score_action raises TypeError: `recovery > 50_000` and
\* `recovery_prob < 0.3` compare a non-number with a number, and the
\* risk-bonus lookup hashes the risk level
ScoreActionRaises(malformed) ==
    \/ "estimated_recovery" \in DOMAIN malformed
    \/ "recovery_probability" \in DOMAIN malformed
    \/ Get(malformed, "risk_level", "") = "list"

\* the context as score_action reads it: a malformed escalation flag is
\* taken for its truth value
ContextRead(account_risk, malformed) ==
    IF Truthy(Get(malformed, "escalation_required", ""))
    THEN [k \in DOMAIN account_risk \cup {"escalation_required"} |->
             IF k = "escalation_required" THEN TRUE ELSE account_risk[k]]
    ELSE account_risk

\* the arguments of the calls of score_action that are looked at: every
\* well-formed combination, and the highest-scoring one with every
\* combination of malformed optional fields
ScoreActionCalls ==
    {[pc |-> "called", method |-> "score_action", action_step |-> st,
      strategy |-> sg, account_risk |-> ctx, malformed |-> EmptyDict,
      result |-> <<>>] : st \in ScoredSteps, sg \in ScoredStrategies, ctx \in Contexts}
    \cup
    {[pc |-> "called", method |-> "score_action",
      action_step |-> Drop([step |-> 1, action |-> "email", tone |-> "urgent"],
                           DOMAIN m),
      strategy |-> Drop([account_id |-> "acc_001",
                         account_name |-> "TechCorp Solutions",
                         estimated_recovery |-> 60000], DOMAIN m),
      account_risk |-> Drop([risk_level |-> "HIGH", escalation_required |-> TRUE,
                             recovery_probability |-> 2000], DOMAIN m),
      malformed |-> m, result |-> <<>>] : m \in MalformedMaps}

\* the kinds of step of the strategies handed to evaluate_strategy
StepKinds ==
    {[action |-> "escalation"], [action |-> "slack"], [action |-> "email"],
     [action |-> "email", tone |-> "urgent"],
     [action |-> "late_fee_waiver", tone |-> "urgent"],
     [action |-> "calendar_invite"]}

\* the steps of a strategy, numbered from 1
NumberedSteps(kinds) ==
    [i \in 1..Len(kinds) |->
        [k \in DOMAIN kinds[i] \cup {"step"} |->
            IF k = "step" THEN i ELSE kinds[i][k]]]

\* strategies with up to MaxSteps steps, with an empty step list, without
\* a "steps" key and without a "strategy" key
EvaluatedStrategies ==
    {[account_id |-> "acc_001", account_name |-> "TechCorp Solutions",
      strategy |-> [type |-> "custom", steps |-> NumberedSteps(kinds)],
      estimated_recovery |-> v] :
        kinds \in SeqsUpTo(StepKinds, MaxSteps), v \in {5000, 45000, 60000}}
    \cup {[account_id |-> "acc_001", account_name |-> "TechCorp Solutions",
           strategy |-> [type |-> "custom"], estimated_recovery |-> v] :
             v \in {5000, 45000, 60000}}
    \cup {[account_id |-> "acc_001", account_name |-> "TechCorp Solutions",
           estimated_recovery |-> v] : v \in {5000, 45000, 60000}}

EvaluatedContexts ==
    {EmptyDict,
     [risk_level |-> "LOW", escalation_required |-> FALSE, recovery_probability |-> 6500],
     [risk_level |-> "MEDIUM", escalation_required |-> FALSE, recovery_probability |-> 4000],
     [risk_level |-> "HIGH", escalation_required |-> TRUE, recovery_probability |-> 2000]}

\* malformed fields of the strategy and of the risk context
MalformedContexts ==
    UNION {[F -> MalformedKinds] : F \in SUBSET (OptionalFields \ {"tone"})}

\* the calls of evaluate_strategy that are looked at: every well-formed
\* combination, and a strategy without steps and one with a step with
\* every combination of malformed fields
EvaluateStrategyCalls ==
    {[pc |-> "called", method |-> "evaluate_strategy", strategy |-> sg,
      account_risk |-> ctx, malformed |-> EmptyDict, result |-> <<>>] :
        sg \in EvaluatedStrategies, ctx \in EvaluatedContexts}
    \cup
    {[pc |-> "called", method |-> "evaluate_strategy",
      strategy |-> Drop([account_id |-> "acc_001",
                         account_name |-> "TechCorp Solutions",
                         strategy |-> [type |-> "custom", steps |-> NumberedSteps(kinds)],
                         estimated_recovery |-> 60000], DOMAIN m),
      account_risk |-> Drop([risk_level |-> "HIGH", escalation_required |-> TRUE,
                             recovery_probability |-> 2000], DOMAIN m),
      malformed |-> m, result |-> <<>>] :
        kinds \in SeqsUpTo({[action |-> "email", tone |-> "urgent"]}, 1),
        m \in MalformedContexts \ {EmptyDict}}

\* evaluate_strategy raises what score_action raises for one of its steps
EvaluateStrategyRaises(strategy, malformed) ==
    /\ StepsOf(strategy) # <<>>
    /\ ScoreActionRaises(malformed)

\* the strategies handed to _run_guardian: for each account one without
\* steps, one with an urgent email and one with an escalation, and one
\* without a "strategy" key
GatedStrategies ==
    {[account_id |-> a, account_name |-> AccountName[a],
      strategy |-> [type |-> "custom", steps |-> NumberedSteps(kinds)],
      estimated_recovery |-> 60000] :
        a \in Accounts,
        kinds \in {<<>>, <<[action |-> "email", tone |-> "urgent"]>>,
                   <<[action |-> "escalation"]>>}}
    \cup {[account_id |-> "acc_001", account_name |-> "TechCorp Solutions",
           estimated_recovery |-> 60000]}

\* risk lookups: empty, knowing the first account, knowing both
RiskLookups ==
    {EmptyDict,
     [a \in {"acc_001"} |->
         [risk_level |-> "HIGH", escalation_required |-> TRUE,
          recovery_probability |-> 2000]],
     [a \in Accounts |->
         IF a = "acc_001"
         THEN [risk_level |-> "HIGH", escalation_required |-> TRUE,
               recovery_probability |-> 2000]
         ELSE [risk_level |-> "LOW", escalation_required |-> FALSE,
               recovery_probability |-> 6500]]}

\* what the strategies and risk records of one call of _run_guardian can
\* hold in place of a number, a level or a flag
GatedMalformed ==
    {EmptyDict,
     [f \in {"estimated_recovery"} |-> "null"],
     [f \in {"recovery_probability"} |-> "string"],
     [f \in {"escalation_required"} |-> "string"],
     [f \in {"risk_level"} |-> "list"]}

RunGuardianCalls ==
    {[pc |-> "called", method |-> "_run_guardian",
      strategies |-> [i \in 1..Len(ss) |-> Drop(ss[i], DOMAIN m)],
      risk_by_account |-> [a \in DOMAIN lk |-> Drop(lk[a], DOMAIN m)],
      malformed |-> m, result |-> <<>>] :
        ss \in SeqsUpTo(GatedStrategies, MaxAccounts), lk \in RiskLookups,
        m \in GatedMalformed}

\* the malformed fields evaluate_strategy meets for one strategy of the
\* call: those of the strategy, and those of its risk record when the
\* lookup has one
MalformedFor(strategy, risk_by_account, malformed) ==
    [f \in {g \in DOMAIN malformed :
               \/ g = "estimated_recovery"
               \/ strategy.account_id \in DOMAIN risk_by_account} |-> malformed[f]]

\* the strategies _run_guardian gets through before one raises
RECURSIVE GatedPrefix(_, _, _)
GatedPrefix(strategies, risk_by_account, malformed) ==
    IF strategies = <<>> THEN <<>>
    ELSE IF EvaluateStrategyRaises(Head(strategies),
                MalformedFor(Head(strategies), risk_by_account, malformed))
    THEN <<>>
    ELSE <<Head(strategies)>>
         \o GatedPrefix(Tail(strategies), risk_by_account, malformed)

GetVerdictCalls ==
    {[pc |-> "called", method |-> "get_verdict", risk_score |-> x, result |-> <<>>] :
        x \in Scores}

\* score_action called directly
ScoreAction ==
    /\ guardian_call.pc = "called"
    /\ guardian_call.method = "score_action"
    /\ guardian_call' =
          IF ScoreActionRaises(guardian_call.malformed)
          THEN [guardian_call EXCEPT !.pc = "raised"]
          ELSE [guardian_call EXCEPT
                   !.pc = "returned",
                   !.result = <<score_action(guardian_call.action_step,
                                    guardian_call.strategy,
                                    ContextRead(guardian_call.account_risk,
                                                guardian_call.malformed))>>]
    /\ UNCHANGED orchestrator_vars

\* evaluate_strategy called directly; in the decision a malformed value is
\* shown as the default the lookup gives, a truthy escalation flag as TRUE
EvaluateStrategy ==
    /\ guardian_call.pc = "called"
    /\ guardian_call.method = "evaluate_strategy"
    /\ guardian_call' =
          IF EvaluateStrategyRaises(guardian_call.strategy, guardian_call.malformed)
          THEN [guardian_call EXCEPT !.pc = "raised"]
          ELSE [guardian_call EXCEPT
                   !.pc = "returned",
                   !.result = <<evaluate_strategy(guardian_call.strategy,
                                    ContextRead(guardian_call.account_risk,
                                                guardian_call.malformed))>>]
    /\ UNCHANGED orchestrator_vars

\* _run_guardian called directly: the decisions appended before a raise
\* stay in the queues
RunGuardian ==
    /\ guardian_call.pc = "called"
    /\ guardian_call.method = "_run_guardian"
    /\ \E prefix \in {GatedPrefix(guardian_call.strategies,
                          guardian_call.risk_by_account, guardian_call.malformed)} :
       \E out \in {run_guardian(prefix,
                       [a \in DOMAIN guardian_call.risk_by_account |->
                           ContextRead(guardian_call.risk_by_account[a],
                                       guardian_call.malformed)],
                       guardian_approval_queue, guardian_hold_queue)} :
          /\ guardian_approval_queue' = out.guardian_approval_queue
          /\ guardian_hold_queue' = out.guardian_hold_queue
          /\ guardian_call' =
                IF Len(prefix) < Len(guardian_call.strategies)
                THEN [guardian_call EXCEPT !.pc = "raised"]
                ELSE [guardian_call EXCEPT
                         !.pc = "returned",
                         !.result = <<[auto_execute |-> out.auto_execute,
                                       summary |-> out.summary]>>]
    /\ UNCHANGED <<approval_queue, runs, calls, dispatched, requested,
                   last_outcome, last_reconcile, last_result>>

\* get_verdict called directly
GetVerdict ==
    /\ guardian_call.pc = "called"
    /\ guardian_call.method = "get_verdict"
    /\ guardian_call' = [guardian_call EXCEPT
                            !.pc = "returned",
                            !.result = <<get_verdict(guardian_call.risk_score)>>]
    /\ UNCHANGED orchestrator_vars

GuardianCalls ==
    ScoreActionCalls \cup GetVerdictCalls \cup EvaluateStrategyCalls
    \cup RunGuardianCalls

GuardianInit ==
    /\ guardian_call \in GuardianCalls
    /\ guardian_approval_queue = <<>>
    /\ guardian_hold_queue = <<>>
    /\ approval_queue = EmptyDict
    /\ runs = [r \in RunIds |-> IdleRun]
    /\ calls = [c \in CallIds |-> IdleCall]
    /\ dispatched = <<>>
    /\ requested = 0
    /\ last_outcome = <<>>
    /\ last_reconcile = <<>>
    /\ last_result = <<>>

GuardianNext ==
    \/ ScoreAction
    \/ GetVerdict
    \/ EvaluateStrategy
    \/ RunGuardian

SpecGuardian == GuardianInit /\ [][GuardianNext]_vars

\* ------------------------------------------------------------------------
\* Properties
\* ------------------------------------------------------------------------
Without(q, i) == [k \in 1..(Len(q) - 1) |-> IF k < i THEN q[k] ELSE q[k + 1]]

HasMatch(q, account_id) == \E i \in 1..Len(q) : q[i].account_id = account_id

IsFirstMatch(q, account_id, i) ==
    /\ i \in 1..Len(q)
    /\ q[i].account_id = account_id
    /\ \A j \in 1..(i - 1) : q[j].account_id # account_id

\* the step in which run r gates its strategies and dispatches the cleared ones
GateStep(r) == runs[r].pc = "PLAN" /\ runs'[r].pc = "EXECUTE"

\* the step in which reconcile call c is made
ReconcileStep(c) == calls[c].pc = "idle" /\ calls'[c].pc # "idle"

\* the state is the one a GATE of run r has just produced
JustGated(r) ==
    /\ dispatched # <<>>
    /\ dispatched[1].sender = "process_revenue_signals"
    /\ dispatched[1].id = r

\* the state is the one a reconcile call has just produced
JustReconciled ==
    /\ last_reconcile # <<>>
    /\ calls[last_reconcile[1].call].pc \in {"EXECUTE", "finished"}
    /\ \/ last_outcome # <<>> /\ last_outcome[1].status \in {"not_found", "rejected"}
       \/ dispatched # <<>> /\ dispatched[1].sender = "approve_guardian_decision"

DecisionOf(run, strategy) ==
    evaluate_strategy(strategy, Get(run.risk_by_account, strategy.account_id, EmptyDict))

DecisionsOf(run) ==
    [i \in 1..Len(run.strategies) |-> DecisionOf(run, run.strategies[i])]

RECURSIVE Keep(_, _)
Keep(decisions, verdict) ==
    IF decisions = <<>> THEN <<>>
    ELSE IF Head(decisions).overall_verdict = verdict
         THEN <<Head(decisions)>> \o Keep(Tail(decisions), verdict)
         ELSE Keep(Tail(decisions), verdict)

StrategiesOf(decisions) == [i \in 1..Len(decisions) |-> decisions[i].strategy]

\* C1: a message goes to the execution collaborator only in a run's GATE
\* step, holding strategies of that run that Guardian scored below 0.40
\* (AUTO_EXECUTE) in that run, or in an approved reconcile call, holding the
\* one strategy of the decision that call removed from a gating queue.
C1_DispatchOnlyWhenCleared ==
    [][dispatched' # <<>> =>
        LET m    == dispatched'[1]
            sent == m.content.strategies
        IN  IF m.sender = "process_revenue_signals"
            THEN /\ GateStep(m.id)
                 /\ \A i \in 1..Len(sent) :
                       /\ \E k \in 1..Len(runs'[m.id].strategies) :
                             runs'[m.id].strategies[k] = sent[i]
                       /\ DecisionOf(runs'[m.id], sent[i]).overall_verdict = AUTO_EXECUTE
                       /\ DecisionOf(runs'[m.id], sent[i]).overall_risk_score < 40
            ELSE /\ ReconcileStep(m.id)
                 /\ last_reconcile'[1].approved
                 /\ Len(sent) = 1
                 /\ \/ \E i \in 1..Len(guardian_approval_queue) :
                          /\ guardian_approval_queue[i].strategy = sent[1]
                          /\ guardian_approval_queue[i].account_id
                                = last_reconcile'[1].account_id
                          /\ guardian_approval_queue'
                                = Without(guardian_approval_queue, i)
                    \/ \E i \in 1..Len(guardian_hold_queue) :
                          /\ guardian_hold_queue[i].strategy = sent[1]
                          /\ guardian_hold_queue[i].account_id
                                = last_reconcile'[1].account_id
                          /\ guardian_hold_queue' = Without(guardian_hold_queue, i)
    ]_vars

\* C1 witness: an approved reconcile call has just dispatched a queued
\* strategy while a run that dispatched an auto-executed strategy is in flight
C1_Witness ==
    /\ dispatched # <<>>
    /\ dispatched[1].sender = "approve_guardian_decision"
    /\ \E r \in RunIds : runs[r].pc = "EXECUTE" /\ Len(runs[r].auto_execute) > 0

\* C2: once ExecutionAgent.process has returned to a run, every strategy the
\* run's GATE classified AUTO_EXECUTE is reported under results or errors and
\* none is pending approval; and right after GATE every other strategy of
\* the run is in a Guardian queue.
C2_AutoExecutedWithinRun ==
    \A r \in RunIds :
        /\ runs[r].pc = "AUDIT" =>
              LET out == runs[r].execution_results
              IN  /\ out.pending_approval = 0
                  /\ \A i \in 1..Len(runs[r].auto_execute) :
                        \/ \E k \in 1..Len(out.results) :
                              out.results[k].account_id = runs[r].auto_execute[i].account_id
                        \/ \E k \in 1..Len(out.errors) :
                              out.errors[k].account_id = runs[r].auto_execute[i].account_id
        /\ JustGated(r) =>
              \A i \in 1..Len(runs[r].strategies) :
                 LET d == DecisionOf(runs[r], runs[r].strategies[i])
                 IN  d.overall_verdict # AUTO_EXECUTE =>
                        \/ \E k \in 1..Len(guardian_approval_queue) :
                              guardian_approval_queue[k] = d
                        \/ \E k \in 1..Len(guardian_hold_queue) :
                              guardian_hold_queue[k] = d

\* C3: an approved reconcile call that found a decision dispatches exactly
\* that decision's strategy as a singleton list, and an outcome of status
\* 'executed' carries an execution result in which the strategy was run
\* (auto_executed + failed = 1, pending_approval = 0).
C3_ApprovedStrategyIsExecuted ==
    /\ (dispatched # <<>> /\ dispatched[1].sender = "approve_guardian_decision") =>
          /\ calls[dispatched[1].id].pc = "EXECUTE"
          /\ dispatched[1].content.strategies
                = <<calls[dispatched[1].id].target[1].strategy>>
    /\ (last_outcome # <<>> /\ last_outcome[1].status = "executed") =>
          /\ last_outcome[1].execution.auto_executed
                + last_outcome[1].execution.failed = 1
          /\ last_outcome[1].execution.pending_approval = 0

\* C4: a reconcile call with approved = false sends nothing to the execution
\* collaborator and leaves ExecutionAgent untouched; when it matches, the
\* first matching decision leaves its queue and the call returns status
\* 'rejected' with the approver's notes and that decision's risk score.
C4_RejectNeverExecutes ==
    [][\A c \in CallIds :
        (ReconcileStep(c) /\ ~last_reconcile'[1].approved) =>
            LET a     == last_reconcile'[1].account_id
                notes == last_reconcile'[1].approver_notes
                Rejected(d) ==
                    <<[status |-> "rejected", account_id |-> a,
                       approver_notes |-> notes,
                       guardian_risk_score |-> d.overall_risk_score]>>
            IN  /\ dispatched' = <<>>
                /\ approval_queue' = approval_queue
                /\ calls'[c].pc = "finished"
                /\ \A i \in 1..Len(guardian_approval_queue) :
                      IsFirstMatch(guardian_approval_queue, a, i) =>
                         /\ guardian_approval_queue' = Without(guardian_approval_queue, i)
                         /\ guardian_hold_queue' = guardian_hold_queue
                         /\ last_outcome' = Rejected(guardian_approval_queue[i])
                /\ \A j \in 1..Len(guardian_hold_queue) :
                      (~HasMatch(guardian_approval_queue, a)
                       /\ IsFirstMatch(guardian_hold_queue, a, j)) =>
                         /\ guardian_hold_queue' = Without(guardian_hold_queue, j)
                         /\ guardian_approval_queue' = guardian_approval_queue
                         /\ last_outcome' = Rejected(guardian_hold_queue[j])
    ]_vars

\* C4 witness: a reconcile call has just returned a rejected outcome
C4_Witness ==
    /\ last_outcome # <<>>
    /\ last_outcome[1].status = "rejected"
    /\ dispatched = <<>>

\* C5: the GATE step of a run puts the strategies it classifies AUTO_EXECUTE,
\* in order, on the run's immediate-execution list, appends its
\* HUMAN_APPROVAL_REQUIRED decisions to the approval queue and its
\* HOLD_FOR_REVIEW decisions to the hold queue, each strategy in exactly one
\* of the three; and the summary counts the three buckets, with
\* evaluated = auto_executed + pending_human_approval + held_for_review.
C5_GateRoutesByVerdict ==
    [][\A r \in RunIds :
        GateStep(r) =>
            LET run       == runs'[r]
                decisions == DecisionsOf(run)
                summary   == run.guardian_summary
            IN  /\ run.auto_execute = StrategiesOf(Keep(decisions, AUTO_EXECUTE))
                /\ guardian_approval_queue'
                      = guardian_approval_queue \o Keep(decisions, HUMAN_APPROVAL_REQUIRED)
                /\ guardian_hold_queue'
                      = guardian_hold_queue \o Keep(decisions, HOLD_FOR_REVIEW)
                /\ summary.evaluated = Len(run.strategies)
                /\ summary.auto_executed = Len(Keep(decisions, AUTO_EXECUTE))
                /\ summary.pending_human_approval
                      = Len(Keep(decisions, HUMAN_APPROVAL_REQUIRED))
                /\ summary.held_for_review = Len(Keep(decisions, HOLD_FOR_REVIEW))
                /\ summary.evaluated = summary.auto_executed
                      + summary.pending_human_approval + summary.held_for_review
    ]_vars

\* C5 witness: a GATE has just routed two strategies to two different buckets
C5_Witness ==
    \E r \in RunIds :
        /\ JustGated(r)
        /\ runs[r].guardian_summary.evaluated = 2
        /\ runs[r].guardian_summary.auto_executed = 1
        /\ runs[r].guardian_summary.pending_human_approval
              + runs[r].guardian_summary.held_for_review = 1

\* C6 as stated: right after the GATE stage of any run, the length of the
\* approval queue plus the length of the hold queue plus the length of the
\* run's auto-execute list equals the number of strategies the run evaluated.
C6_QueueLengthsEqualEvaluated ==
    \A r \in RunIds :
        JustGated(r) =>
            Len(guardian_approval_queue) + Len(guardian_hold_queue)
               + Len(runs[r].auto_execute) = runs[r].guardian_summary.evaluated

\* C6 amended: the GATE stage of any run makes the two queues grow, together,
\* by the number of the run's strategies that are not on its auto-execute
\* list; the lengths themselves add up to the number evaluated when both
\* queues were empty as GATE began.
C6_QueueGrowthEqualsEvaluated ==
    [][\A r \in RunIds :
        GateStep(r) =>
            /\ (Len(guardian_approval_queue') - Len(guardian_approval_queue))
                  + (Len(guardian_hold_queue') - Len(guardian_hold_queue))
                  + Len(runs'[r].auto_execute) = Len(runs'[r].strategies)
            /\ Len(guardian_approval_queue') >= Len(guardian_approval_queue)
            /\ Len(guardian_hold_queue') >= Len(guardian_hold_queue)
            /\ (guardian_approval_queue = <<>> /\ guardian_hold_queue = <<>>) =>
                  Len(guardian_approval_queue') + Len(guardian_hold_queue')
                     + Len(runs'[r].auto_execute) = Len(runs'[r].strategies)
    ]_vars

\* C6 witness: a GATE has just queued a decision behind the decisions that
\* earlier runs left in the queues
C6_Witness ==
    \E r \in RunIds :
        /\ JustGated(r)
        /\ runs[r].guardian_summary.pending_human_approval
              + runs[r].guardian_summary.held_for_review >= 1
        /\ Len(guardian_approval_queue) + Len(guardian_hold_queue)
              > runs[r].guardian_summary.pending_human_approval
                   + runs[r].guardian_summary.held_for_review

\* C7: in every reachable state each gating queue holds at most one decision
\* per account identifier.
C7_OneDecisionPerAccount ==
    \A a \in Accounts :
        /\ Cardinality({i \in 1..Len(guardian_approval_queue) :
                           guardian_approval_queue[i].account_id = a}) <= 1
        /\ Cardinality({i \in 1..Len(guardian_hold_queue) :
                           guardian_hold_queue[i].account_id = a}) <= 1

\* C8: a reconcile call whose account identifier matches a queued decision
\* removes the first matching decision from the queue that holds it (the
\* approval queue is searched first), leaves the other queue as it was, so
\* that the two queues together hold exactly one decision less; the call
\* produces at most one outcome.
C8_ReconcileRemovesExactlyOne ==
    [][\A c \in CallIds :
        LET a == last_reconcile'[1].account_id
        IN  (/\ ReconcileStep(c)
             /\ HasMatch(guardian_approval_queue, a) \/ HasMatch(guardian_hold_queue, a)) =>
                /\ IF HasMatch(guardian_approval_queue, a)
                   THEN /\ \E i \in 1..Len(guardian_approval_queue) :
                              /\ IsFirstMatch(guardian_approval_queue, a, i)
                              /\ guardian_approval_queue'
                                    = Without(guardian_approval_queue, i)
                        /\ guardian_hold_queue' = guardian_hold_queue
                   ELSE /\ \E j \in 1..Len(guardian_hold_queue) :
                              /\ IsFirstMatch(guardian_hold_queue, a, j)
                              /\ guardian_hold_queue' = Without(guardian_hold_queue, j)
                        /\ guardian_approval_queue' = guardian_approval_queue
                /\ Len(guardian_approval_queue') + Len(guardian_hold_queue')
                      = Len(guardian_approval_queue) + Len(guardian_hold_queue) - 1
                /\ Len(last_outcome') <= 1
                /\ calls'[c].pc = "finished" <=> Len(last_outcome') = 1
    ]_vars

\* C8 witness: a reconcile call has just removed the approval-queue decision
\* of an account that also has a decision in the hold queue
C8_Witness ==
    /\ JustReconciled
    /\ last_reconcile[1].in_approval >= 1
    /\ last_reconcile[1].in_hold >= 1
    /\ HasMatch(guardian_hold_queue, last_reconcile[1].account_id)

\* C9: when a reconcile call for an account that was present in exactly one
\* queue has returned, a reconcile call for the same account that follows it
\* immediately returns the not-found outcome.
C9_SecondReconcileNotFound ==
    [][\A c \in CallIds :
        (/\ ReconcileStep(c)
         /\ last_reconcile # <<>>
         /\ last_reconcile[1].returned
         /\ last_reconcile[1].account_id = last_reconcile'[1].account_id
         /\ (last_reconcile[1].in_approval > 0) # (last_reconcile[1].in_hold > 0)) =>
            last_outcome' = <<[status |-> "not_found",
                               account_id |-> last_reconcile'[1].account_id]>>
    ]_vars

\* C10: a reconcile call whose account identifier matches no decision in
\* either queue returns the not-found outcome (it does not raise), leaves
\* both queues as they were, sends nothing to the execution collaborator and
\* leaves ExecutionAgent untouched.
C10_NotFoundChangesNothing ==
    [][\A c \in CallIds :
        LET a == last_reconcile'[1].account_id
        IN  (/\ ReconcileStep(c)
             /\ ~HasMatch(guardian_approval_queue, a)
             /\ ~HasMatch(guardian_hold_queue, a)) =>
                /\ last_outcome' = <<[status |-> "not_found", account_id |-> a]>>
                /\ calls'[c].pc = "finished"
                /\ guardian_approval_queue' = guardian_approval_queue
                /\ guardian_hold_queue' = guardian_hold_queue
                /\ dispatched' = <<>>
                /\ approval_queue' = approval_queue
    ]_vars

\* C10 witness: a reconcile call has just returned not-found while the
\* queues hold decisions of another account
C10_Witness ==
    /\ JustReconciled
    /\ last_outcome # <<>>
    /\ last_outcome[1].status = "not_found"
    /\ Len(guardian_approval_queue) + Len(guardian_hold_queue) > 0

\* ------------------------------------------------------------------------
\* ExecutionAgent.process called directly, the executions it gathers taken
\* one step at a time: each send is a point where another execution can
\* run.  A step that is not a dict makes its execution raise.
\* ------------------------------------------------------------------------
ExecutedStrategies ==
    {[account_id |-> a, account_name |-> AccountName[a],
      strategy |-> [type |-> "custom", steps |-> NumberedSteps(kinds)],
      estimated_recovery |-> 5000, priority |-> "low"] :
        a \in Accounts,
        kinds \in {<<[action |-> "email"]>>,
                   <<[action |-> "email"], [action |-> "escalation"]>>}}
    \cup {[account_id |-> "acc_001", account_name |-> "TechCorp Solutions",
           strategy |-> [type |-> "custom",
                         steps |-> NumberedSteps(<<[action |-> "email"]>>)],
           estimated_recovery |-> 45000, priority |-> "low"],
          [account_id |-> "acc_001", account_name |-> "TechCorp Solutions",
           strategy |-> [type |-> "custom",
                         steps |-> NumberedSteps(<<[action |-> "email"]>>)],
           estimated_recovery |-> 5000, priority |-> "high"]}

\* for each strategy the position of the step that is not a dict, 0 for none
BrokenSteps(strategies) ==
    {f \in [1..Len(strategies) -> 0..2] :
        \A i \in 1..Len(strategies) : f[i] <= Len(StepsOf(strategies[i]))}

ProcessCalls ==
    UNION {{[pc |-> "called", method |-> "ExecutionAgent.process", strategies |-> ss,
             not_a_dict |-> f, needs_approval |-> <<>>, tasks |-> <<>>,
             result |-> <<>>] : f \in BrokenSteps(ss)} :
              ss \in SeqsUpTo(ExecutedStrategies, MaxAccounts)}

NeedsApproval(strategy) == requires_approval(strategy)

TaskRuns(task) == ~requires_approval(task.strategy)

\* process up to the await of asyncio.gather: the strategies that need
\* sign-off are stored, one execution per other strategy is scheduled
ProcessStarts ==
    /\ guardian_call.pc = "called"
    /\ guardian_call.method = "ExecutionAgent.process"
    /\ approval_queue' = QueueForApproval(approval_queue, guardian_call.strategies)
    /\ guardian_call' =
          [guardian_call EXCEPT
              !.pc = "gathering",
              !.needs_approval = SelectSeq(guardian_call.strategies, NeedsApproval),
              !.tasks =
                  SelectSeq([i \in 1..Len(guardian_call.strategies) |->
                                [strategy |-> guardian_call.strategies[i],
                                 broken   |-> guardian_call.not_a_dict[i],
                                 next     |-> 1,
                                 execution_log |-> <<>>,
                                 status   |-> "running"]],
                            TaskRuns)]
    /\ UNCHANGED <<guardian_approval_queue, guardian_hold_queue, runs, calls,
                   dispatched, requested, last_outcome, last_reconcile, last_result>>

\* _execute_strategy of task j: its next step, or its return after the
\* last one
ExecuteStep(j) ==
    /\ guardian_call.pc = "gathering"
    /\ j \in 1..Len(guardian_call.tasks)
    /\ guardian_call.tasks[j].status = "running"
    /\ LET task  == guardian_call.tasks[j]
           steps == StepsOf(task.strategy)
       IN  guardian_call' =
              [guardian_call EXCEPT !.tasks[j] =
                  IF task.next > Len(steps)
                  THEN [task EXCEPT !.status = "done"]
                  ELSE IF task.next = task.broken
                  THEN [task EXCEPT !.status = "raised"]
                  ELSE [task EXCEPT
                           !.next = task.next + 1,
                           !.execution_log =
                               Append(task.execution_log,
                                  [step   |-> Get(steps[task.next], "step", 0),
                                   action |-> Get(steps[task.next], "action", "None"),
                                   status |->
                                      IF StepSucceeds(Get(steps[task.next],
                                                          "action", "None"))
                                      THEN "success" ELSE "failed"])]]
    /\ UNCHANGED orchestrator_vars

\* what _execute_strategy returns for a finished task
TaskResult(task) ==
    [account_id    |-> task.strategy.account_id,
     account_name  |-> task.strategy.account_name,
     execution_log |-> task.execution_log,
     status        |-> IF \A i \in 1..Len(task.execution_log) :
                              task.execution_log[i].status = "success"
                       THEN "completed" ELSE "partial"]

TaskError(task) == [account_id |-> task.strategy.account_id, error |-> "AttributeError"]

TaskDone(task) == task.status = "done"

TaskRaised(task) == task.status = "raised"

\* gather without return_exceptions: the first exception leaves process
GatherReturnsFirstException ==
    /\ guardian_call.pc = "gathering"
    /\ \/ \E j \in 1..Len(guardian_call.tasks) : guardian_call.tasks[j].status = "raised"
       \/ \A j \in 1..Len(guardian_call.tasks) : guardian_call.tasks[j].status = "done"
    /\ guardian_call' =
          IF \E j \in 1..Len(guardian_call.tasks) : guardian_call.tasks[j].status = "raised"
          THEN [guardian_call EXCEPT !.pc = "raised"]
          ELSE [guardian_call EXCEPT
                   !.pc = "returned",
                   !.result =
                      <<[auto_executed    |-> Len(guardian_call.tasks),
                         pending_approval |-> Len(guardian_call.needs_approval),
                         failed           |-> 0,
                         results |-> [j \in 1..Len(guardian_call.tasks) |->
                                         TaskResult(guardian_call.tasks[j])],
                         errors  |-> <<>>]>>]
    /\ UNCHANGED orchestrator_vars

\* asyncio.gather(..., return_exceptions=True) returns when every execution
\* has returned or raised; process sorts the outcomes and returns
GatherReturns ==
    /\ guardian_call.pc = "gathering"
    /\ \A j \in 1..Len(guardian_call.tasks) : guardian_call.tasks[j].status # "running"
    /\ LET Sorted(done, raised) ==
               [auto_executed    |-> Len(done),
                pending_approval |-> Len(guardian_call.needs_approval),
                failed           |-> Len(raised),
                results |-> [j \in 1..Len(done) |-> TaskResult(done[j])],
                errors  |-> [j \in 1..Len(raised) |-> TaskError(raised[j])]]
       IN  guardian_call' =
              [guardian_call EXCEPT
                  !.pc = "returned",
                  !.result = <<Sorted(SelectSeq(guardian_call.tasks, TaskDone),
                                      SelectSeq(guardian_call.tasks, TaskRaised))>>]
    /\ UNCHANGED orchestrator_vars

ExecutionInit ==
    /\ guardian_call \in ProcessCalls
    /\ guardian_approval_queue = <<>>
    /\ guardian_hold_queue = <<>>
    /\ approval_queue = EmptyDict
    /\ runs = [r \in RunIds |-> IdleRun]
    /\ calls = [c \in CallIds |-> IdleCall]
    /\ dispatched = <<>>
    /\ requested = 0
    /\ last_outcome = <<>>
    /\ last_reconcile = <<>>
    /\ last_result = <<>>

ExecutionNext ==
    \/ ProcessStarts
    \/ \E j \in 1..MaxAccounts : ExecuteStep(j)
    \/ GatherReturns

SpecExecution == ExecutionInit /\ [][ExecutionNext]_vars

\* ------------------------------------------------------------------------
\* The shipped RiskAgent and StrategyAgent behind process_revenue_signals:
\* the bundles the data collaborator returned, what RiskAgent measures on
\* them, the accounts kept for PLAN, the plans StrategyAgent drafts and the
\* gate.  days_until_end is what _days_until_contract_end computes from the
\* contract date and the clock: <<>> for None, else <<days>>.
\* ------------------------------------------------------------------------
Max(a, b) == IF a > b THEN a ELSE b

AccountBundles(ids, overdue, days, drops, ends, lates, values, amounts) ==
    {[account_id       |-> a,
      account_name     |-> AccountName[a],
      annual_value     |-> v,
      overdue_invoices |-> [has_overdue |-> h, amount |-> m, days_overdue |-> d],
      usage_drop       |-> [usage_drop_percent |-> u],
      days_until_end   |-> e,
      payment_delays   |-> [late_payments_last_6m |-> l]] :
        a \in ids, h \in overdue, d \in days, u \in drops, e \in ends,
        l \in lates, v \in values, m \in amounts}

\* a request of one account, and requests of two accounts that may share
\* their identifier
ShippedData ==
    {<<b>> : b \in AccountBundles({"acc_001"}, BOOLEAN, {0, 18, 40, 52}, {10, 30, 65},
                       {<<>>, <<-10>>, <<0>>, <<20>>, <<60>>, <<120>>, <<400>>},
                       {0, 3}, {30000, 150000, 300000}, {0, 45000})}
    \cup {<<b, c>> :
            b \in AccountBundles(Accounts, {TRUE}, {18, 52}, {10, 65}, {<<-10>>},
                      {3}, {30000}, {0}),
            c \in AccountBundles(Accounts, {TRUE}, {18, 52}, {10, 65}, {<<-10>>},
                      {3}, {30000}, {0})}

\* RiskAgent._calculate_risk_score, in ten-thousandths
calculate_risk_score(account) ==
    LET overdue == IF account.overdue_invoices.has_overdue
                   THEN Min(4000, account.overdue_invoices.days_overdue * 100)
                   ELSE 0
        usage   == Min(3000, account.usage_drop.usage_drop_percent * 100)
        days_until_end == account.days_until_end
        contract ==
            IF days_until_end = <<>> THEN 0
            ELSE IF days_until_end[1] <= 0 THEN 2000
            ELSE IF days_until_end[1] <= 30 THEN 1500
            ELSE IF days_until_end[1] <= 90 THEN 1000
            ELSE IF days_until_end[1] <= 180 THEN 500
            ELSE 0
        late    == Min(1000, account.payment_delays.late_payments_last_6m * 250)
    IN  Min(10000, overdue + usage + contract + late)

\* RiskAgent._calculate_recovery_probability, in ten-thousandths
calculate_recovery_probability(account) ==
    LET days_overdue == account.overdue_invoices.days_overdue
        drop_percent == account.usage_drop.usage_drop_percent
        late_count   == account.payment_delays.late_payments_last_6m
        prob == 6500
                - (IF days_overdue > 60 THEN 2000
                   ELSE IF days_overdue > 30 THEN 1000 ELSE 0)
                - (IF drop_percent > 50 THEN 1500
                   ELSE IF drop_percent > 25 THEN 700 ELSE 0)
                - late_count * 200
    IN  Max(0, Min(10000, prob))

\* RiskAgent._check_contract_end
check_contract_end(account) ==
    [days_until_end |-> account.days_until_end,
     ending_soon    |-> /\ account.days_until_end # <<>>
                        /\ 0 <= account.days_until_end[1]
                        /\ account.days_until_end[1] <= 90]

\* RiskAgent._assess_risks: one result per bundle, in order
assess_risks(accounts_data) ==
    [i \in 1..Len(accounts_data) |->
        LET account == accounts_data[i]
            risk_score == calculate_risk_score(account)
        IN  [account_id           |-> account.account_id,
             account_name         |-> account.account_name,
             annual_value         |-> account.annual_value,
             risk_score           |-> risk_score,
             risk_level           |-> get_risk_level(risk_score),
             recovery_probability |-> calculate_recovery_probability(account),
             escalation_required  |-> risk_score > ESCALATION_THRESHOLD,
             signals |-> [overdue         |-> account.overdue_invoices,
                          usage_drop      |-> account.usage_drop,
                          contract_ending |-> check_contract_end(account),
                          payment_delays  |-> account.payment_delays]]]

\* StrategyAgent._identify_primary_signal, on a risk result
identify_primary_signal(account) ==
    IF /\ account.signals.overdue.has_overdue
       /\ account.signals.overdue.days_overdue > 0
    THEN "overdue_invoice"
    ELSE IF account.signals.usage_drop.usage_drop_percent > 20 THEN "usage_drop"
    ELSE IF account.signals.contract_ending.ending_soon THEN "contract_renewal"
    ELSE "default"

\* StrategyAgent._invoice_recovery_strategy
invoice_recovery_strategy(account) ==
    LET days_overdue == account.signals.overdue.days_overdue
        first == <<[step |-> 1, action |-> "email",
                    tone |-> IF days_overdue < 30 THEN "friendly_reminder"
                             ELSE "urgent"]>>
        steps == IF days_overdue > 45
                 THEN Append(first, [step |-> 2, action |-> "offer_incentive",
                                     type |-> "late_fee_waiver"])
                 ELSE first
    IN  [type     |-> "invoice_recovery",
         steps    |-> steps \o
                      <<[step |-> Len(steps) + 1, action |-> "email",
                         tone |-> "escalated"],
                        [step |-> Len(steps) + 2, action |-> "slack"]>>,
         priority |-> IF days_overdue > 45 THEN "high" ELSE "medium"]

\* StrategyAgent._reengagement_strategy
reengagement_strategy(account) ==
    [type     |-> "reengagement",
     steps    |-> <<[step |-> 1, action |-> "email"],
                    [step |-> 2, action |-> "offer", type |-> "training_session"],
                    [step |-> 3, action |-> "email"]>>,
     priority |-> IF account.signals.usage_drop.usage_drop_percent > 50
                  THEN "high" ELSE "medium"]

\* StrategyAgent._renewal_strategy
renewal_strategy(account) ==
    [type     |-> "contract_renewal",
     steps    |-> <<[step |-> 1, action |-> "email"],
                    [step |-> 2, action |-> "calendar_invite"]>>,
     priority |-> "high"]

\* StrategyAgent._default_strategy
default_strategy(account) ==
    [type     |-> "general_outreach",
     steps    |-> <<[step |-> 1, action |-> "email"]>>,
     priority |-> "low"]

\* StrategyAgent._estimate_recovery_value: the overdue amount or a fifth of
\* the annual value, whichever is larger
estimate_recovery_value(account) ==
    Max(account.signals.overdue.amount, (account.annual_value * 20) \div 100)

\* StrategyAgent._create_strategies: one strategy per account, in order
create_strategies(accounts) ==
    [i \in 1..Len(accounts) |->
        LET account == accounts[i]
            primary_signal == identify_primary_signal(account)
            strategy ==
                IF primary_signal = "overdue_invoice"
                THEN invoice_recovery_strategy(account)
                ELSE IF primary_signal = "usage_drop"
                THEN reengagement_strategy(account)
                ELSE IF primary_signal = "contract_renewal"
                THEN renewal_strategy(account)
                ELSE default_strategy(account)
        IN  [account_id         |-> account.account_id,
             account_name       |-> account.account_name,
             risk_level         |-> account.risk_level,
             primary_signal     |-> primary_signal,
             strategy           |-> [type |-> strategy.type, steps |-> strategy.steps],
             estimated_recovery |-> estimate_recovery_value(account),
             priority           |-> strategy.priority]]

ShippedCalls ==
    {[pc |-> "called", method |-> "process_revenue_signals", data |-> d,
      risk_results |-> <<>>, strategies |-> <<>>, result |-> <<>>] :
        d \in ShippedData}

\* RiskAgent.process returns; the run keeps the results
ShippedRiskReturns ==
    /\ guardian_call.pc = "called"
    /\ guardian_call.method = "process_revenue_signals"
    /\ guardian_call' =
          [guardian_call EXCEPT !.pc = "assessed",
                                !.risk_results = assess_risks(guardian_call.data)]
    /\ UNCHANGED orchestrator_vars

\* StrategyAgent.process returns for the accounts above 0.70; the run gates
\* the strategies
ShippedStrategyReturns ==
    /\ guardian_call.pc = "assessed"
    /\ guardian_call.method = "process_revenue_signals"
    /\ \E strategies \in {create_strategies(
                              SelectSeq(guardian_call.risk_results, HighRisk))} :
       \E out \in {run_guardian(strategies, RiskByAccount(guardian_call.risk_results),
                       guardian_approval_queue, guardian_hold_queue)} :
          /\ guardian_approval_queue' = out.guardian_approval_queue
          /\ guardian_hold_queue' = out.guardian_hold_queue
          /\ guardian_call' =
                [guardian_call EXCEPT
                    !.pc = "gated",
                    !.strategies = strategies,
                    !.result = <<[auto_execute |-> out.auto_execute,
                                  summary |-> out.summary]>>]
    /\ UNCHANGED <<approval_queue, runs, calls, dispatched, requested,
                   last_outcome, last_reconcile, last_result>>

ShippedInit ==
    /\ guardian_call \in ShippedCalls
    /\ guardian_approval_queue = <<>>
    /\ guardian_hold_queue = <<>>
    /\ approval_queue = EmptyDict
    /\ runs = [r \in RunIds |-> IdleRun]
    /\ calls = [c \in CallIds |-> IdleCall]
    /\ dispatched = <<>>
    /\ requested = 0
    /\ last_outcome = <<>>
    /\ last_reconcile = <<>>
    /\ last_result = <<>>

ShippedNext ==
    \/ ShippedRiskReturns
    \/ ShippedStrategyReturns

SpecShipped == ShippedInit /\ [][ShippedNext]_vars

\* ------------------------------------------------------------------------
\* Direct Guardian calls: helpers
\* ------------------------------------------------------------------------
Returned(method) ==
    /\ guardian_call.pc = "returned"
    /\ guardian_call.method = method

Raised(method) ==
    /\ guardian_call.pc = "raised"
    /\ guardian_call.method = method

\* C11: get_verdict splits the scores 0.00..1.00 into three intervals that
\* cover the range without overlap: below 0.40 AUTO_EXECUTE, from 0.40 up to
\* but excluding 0.70 HUMAN_APPROVAL_REQUIRED, from 0.70 on HOLD_FOR_REVIEW;
\* 0.40 and 0.70 themselves belong to the more severe verdict.
C11_VerdictPartitionsScores ==
    Returned("get_verdict") =>
        LET s == guardian_call.risk_score
            v == guardian_call.result[1]
        IN  /\ v \in {AUTO_EXECUTE, HUMAN_APPROVAL_REQUIRED, HOLD_FOR_REVIEW}
            /\ (v = AUTO_EXECUTE) <=> (s < 40)
            /\ (v = HUMAN_APPROVAL_REQUIRED) <=> (s >= 40 /\ s < 70)
            /\ (v = HOLD_FOR_REVIEW) <=> (s >= 70)

C11_Witness ==
    /\ Returned("get_verdict")
    /\ guardian_call.risk_score = 70
    /\ guardian_call.result = <<HOLD_FOR_REVIEW>>

\* The sum the scoring table gives for the arguments of the call, before the
\* cap, in hundredths.
RawSum ==
    LET step     == guardian_call.action_step
        ctx      == guardian_call.account_risk
        kind     == Get(step, "action", "email")
        tone     == Get(step, "tone", "")
        recovery == Get(guardian_call.strategy, "estimated_recovery", 0)
        level    == Get(ctx, "risk_level", "LOW")
        prob     == Get(ctx, "recovery_probability", 5000)
    IN  Get(ACTION_BASE_RISK, kind, DEFAULT_BASE_RISK)
        + (IF tone = "urgent" \/ tone = "escalated" THEN 15 ELSE 0)
        + (IF recovery > 50000 THEN 30 ELSE IF recovery > 10000 THEN 15 ELSE 0)
        + (IF level = "HIGH" THEN 20 ELSE IF level = "MEDIUM" THEN 5 ELSE 0)
        + (IF Get(ctx, "escalation_required", FALSE) THEN 15 ELSE 0)
        + (IF prob < 3000 THEN 25 ELSE IF prob < 5000 THEN 10 ELSE 0)

\* the call email / urgent / 60,000 / HIGH / escalation required / 0.20
IsCappedExample ==
    /\ guardian_call.method = "score_action"
    /\ guardian_call.malformed = EmptyDict
    /\ guardian_call.action_step = [step |-> 1, action |-> "email", tone |-> "urgent"]
    /\ Get(guardian_call.strategy, "estimated_recovery", 0) = 60000
    /\ guardian_call.account_risk =
          [risk_level |-> "HIGH", escalation_required |-> TRUE,
           recovery_probability |-> 2000]

\* C12: for well-typed arguments score_action returns the smaller of 1.00
\* and base + tone + recovery + risk level + escalation + probability
\* increments; the score lies in [0,1]; the call email/urgent/60,000/HIGH/
\* escalation/0.20 has raw sum 1.35, scores 1.00 and is HOLD_FOR_REVIEW.
C12_ScoreIsCappedSum ==
    (Returned("score_action") /\ guardian_call.malformed = EmptyDict) =>
        LET score == guardian_call.result[1].score
        IN  /\ score = (IF RawSum < 100 THEN RawSum ELSE 100)
            /\ score \in Scores
            /\ IsCappedExample =>
                  /\ RawSum = 135
                  /\ score = 100
                  /\ get_verdict(score) = HOLD_FOR_REVIEW

C12_Witness ==
    /\ Returned("score_action")
    /\ IsCappedExample
    /\ guardian_call.result[1].score = 100

\* the decisions the two Guardian queues hold, each with the arguments its
\* steps were scored with
QueuedDecisions == guardian_approval_queue \o guardian_hold_queue

MaxStepScore(step_decisions) ==
    IF step_decisions = <<>> THEN 0
    ELSE CHOOSE x \in {step_decisions[i].risk_score : i \in 1..Len(step_decisions)} :
            \A i \in 1..Len(step_decisions) : step_decisions[i].risk_score <= x

\* C14: evaluate_strategy gives one step decision per step of the strategy,
\* in the order of the steps, each with the score score_action gives the
\* step and the verdict get_verdict gives that score; the overall risk
\* score is the maximum of the step scores and the overall verdict is
\* get_verdict of the overall score.
C14_DecisionFollowsSteps ==
    Returned("evaluate_strategy") =>
        LET d     == guardian_call.result[1]
            steps == StepsOf(guardian_call.strategy)
        IN  /\ Len(d.step_decisions) = Len(steps)
            /\ \A i \in 1..Len(steps) :
                  /\ d.step_decisions[i].step = steps[i].step
                  /\ d.step_decisions[i].action = steps[i].action
                  /\ d.step_decisions[i].risk_score =
                        score_action(steps[i], guardian_call.strategy,
                                     d.account_risk).score
                  /\ d.step_decisions[i].verdict =
                        get_verdict(d.step_decisions[i].risk_score)
            /\ d.overall_risk_score = MaxStepScore(d.step_decisions)
            /\ d.overall_verdict = get_verdict(d.overall_risk_score)

\* two steps, the first scoring higher than the second
C14_Witness ==
    /\ Returned("evaluate_strategy")
    /\ Len(guardian_call.result[1].step_decisions) = 2
    /\ guardian_call.result[1].step_decisions[1].risk_score
          > guardian_call.result[1].step_decisions[2].risk_score
    /\ guardian_call.result[1].overall_risk_score
          = guardian_call.result[1].step_decisions[1].risk_score

\* severity of a verdict
Severity(verdict) ==
    IF verdict = AUTO_EXECUTE THEN 0
    ELSE IF verdict = HUMAN_APPROVAL_REQUIRED THEN 1 ELSE 2

\* C15: the overall verdict of a strategy with at least one step is the
\* most severe of its step verdicts, AUTO_EXECUTE being the mildest and
\* HOLD_FOR_REVIEW the most severe: one step that is held holds the whole
\* strategy, however low the other steps score.
C15_WorstVerdictWins ==
    (Returned("evaluate_strategy")
        /\ guardian_call.result[1].step_decisions # <<>>) =>
        LET d  == guardian_call.result[1]
            sd == d.step_decisions
        IN  /\ \A i \in 1..Len(sd) : Severity(sd[i].verdict) <= Severity(d.overall_verdict)
            /\ \E i \in 1..Len(sd) : sd[i].verdict = d.overall_verdict
            /\ (\E i \in 1..Len(sd) : sd[i].risk_score >= 80)
                  => d.overall_verdict = HOLD_FOR_REVIEW

\* a first step that alone would be executed at once and a second step
\* scoring above 0.80: the strategy is held
C15_Witness ==
    /\ Returned("evaluate_strategy")
    /\ Len(guardian_call.result[1].step_decisions) = 2
    /\ guardian_call.result[1].step_decisions[1].verdict = AUTO_EXECUTE
    /\ guardian_call.result[1].step_decisions[2].risk_score >= 80
    /\ guardian_call.result[1].overall_verdict = HOLD_FOR_REVIEW

\* the strategy has no "strategy" key, no "steps" key or an empty step list
HasNoSteps(strategy) ==
    \/ "strategy" \notin DOMAIN strategy
    \/ "steps" \notin DOMAIN strategy.strategy
    \/ strategy.strategy.steps = <<>>

\* C16: a strategy without steps (empty or absent step list) is evaluated
\* to overall score 0.0 and AUTO_EXECUTE whatever its recovery value and
\* its risk context, and _run_guardian puts it on the list it returns for
\* immediate execution and in neither queue.
C16_NoStepsIsAutoExecuted ==
    /\ (Returned("evaluate_strategy") /\ HasNoSteps(guardian_call.strategy)) =>
          /\ guardian_call.result[1].step_decisions = <<>>
          /\ guardian_call.result[1].overall_risk_score = 0
          /\ guardian_call.result[1].overall_verdict = AUTO_EXECUTE
    /\ Returned("_run_guardian") =>
          \A i \in 1..Len(guardian_call.strategies) :
              HasNoSteps(guardian_call.strategies[i]) =>
                  /\ \E j \in 1..Len(guardian_call.result[1].auto_execute) :
                        guardian_call.result[1].auto_execute[j]
                            = guardian_call.strategies[i]
                  /\ \A j \in 1..Len(QueuedDecisions) :
                        QueuedDecisions[j].strategy # guardian_call.strategies[i]

\* _run_guardian has returned for a strategy without steps whose account
\* is HIGH risk with escalation required, and for a second strategy that
\* it queued
C16_Witness ==
    /\ Returned("_run_guardian")
    /\ guardian_call.malformed = EmptyDict
    /\ Len(guardian_call.strategies) = 2
    /\ HasNoSteps(guardian_call.strategies[1])
    /\ guardian_call.strategies[1].account_id \in DOMAIN guardian_call.risk_by_account
    /\ guardian_call.result[1].auto_execute = <<guardian_call.strategies[1]>>
    /\ Len(QueuedDecisions) = 1

\* C17: whatever optional scoring fields (tone, estimated recovery, risk
\* level, escalation flag, recovery probability) are missing or hold a null
\* or a value of the wrong type, score_action returns, and its score is the
\* one it gives when those fields are absent: they add no bonus.
C17_MalformedFieldsAddNothing ==
    (guardian_call.method = "score_action" /\ guardian_call.pc # "called") =>
        /\ guardian_call.pc = "returned"
        /\ guardian_call.result[1].score =
              score_action(guardian_call.action_step, guardian_call.strategy,
                           guardian_call.account_risk).score

\* C18: _run_guardian returns for every list of strategies and every risk
\* lookup, and a strategy whose account the lookup does not know is scored
\* against the empty context.
C18_GateNeverRaises ==
    (guardian_call.method = "_run_guardian" /\ guardian_call.pc # "called") =>
        /\ guardian_call.pc = "returned"
        /\ \A j \in 1..Len(QueuedDecisions) :
              QueuedDecisions[j].account_id \notin DOMAIN guardian_call.risk_by_account
                  => QueuedDecisions[j].account_risk = EmptyDict

\* the stage a run is in names the collaborator it is awaiting
Stages == <<"FETCH", "ASSESS", "PLAN", "EXECUTE", "AUDIT">>

StageNames == {Stages[i] : i \in 1..Len(Stages)}

\* the call of run r ends in this step with an exception
RaiseStep(r) ==
    /\ runs[r].pc \in StageNames
    /\ runs'[r].pc = "finished"
    /\ last_result' = <<[run |-> r, status |-> "raised"]>>

\* C19: the stages of a run follow one another in the order data, risk,
\* strategy, execution, audit: a collaborator is invoked only in the step
\* in which the collaborator before it returns (the data collaborator in
\* the step of the call), the risk collaborator is invoked with the data
\* result at hand, the execution collaborator is invoked at the end of
\* GATE whatever the auto-execute list holds, and a run returns its result
\* only when the audit collaborator returns, so a completed run has
\* invoked each collaborator exactly once.
C19_StagesInOrder ==
    [][\A r \in RunIds :
          /\ runs'[r].pc # runs[r].pc =>
                \/ runs[r].pc = "idle" /\ runs'[r].pc = Stages[1]
                \/ \E i \in 1..(Len(Stages) - 1) :
                      runs[r].pc = Stages[i] /\ runs'[r].pc = Stages[i + 1]
                \/ /\ runs[r].pc = Stages[Len(Stages)]
                   /\ runs'[r].pc = "finished"
                   /\ last_result' # <<>>
                   /\ last_result'[1].run = r
                   /\ last_result'[1].status = "returned"
                \/ RaiseStep(r)
          /\ (runs[r].pc # "ASSESS" /\ runs'[r].pc = "ASSESS") =>
                runs'[r].data_task = FetchRiskSignals(runs[r].accounts)
          /\ GateStep(r) =>
                dispatched' =
                    <<Message("process_revenue_signals", r, runs'[r].auto_execute)>>
          /\ (last_result' # <<>> /\ last_result' # last_result
                /\ last_result'[1].run = r /\ last_result'[1].status = "returned")
                => runs[r].pc = "AUDIT"
    ]_vars

\* a run awaits the audit collaborator: the four collaborators before it
\* have returned, the execution collaborator although GATE left nothing
\* to execute at once
C19_Witness ==
    \E r \in RunIds :
        /\ runs[r].pc = "AUDIT"
        /\ runs[r].data_task # <<>>
        /\ runs[r].risk_results # <<>>
        /\ runs[r].strategies # <<>>
        /\ runs[r].auto_execute = <<>>
        /\ runs[r].execution_results # EmptyDict

\* C20: when the collaborator of a stage raises or is not registered, the
\* call of the run ends in that step with the error, without an audit
\* record in what the caller gets; a run that has ended invokes no further
\* collaborator, so after a failure before AUDIT the audit collaborator is
\* never invoked for the run.
C20_FailureAbortsRun ==
    [][\A r \in RunIds :
          /\ (last_result' # <<>> /\ last_result' # last_result
                /\ last_result'[1].run = r /\ last_result'[1].status = "raised") =>
                /\ runs[r].pc \in StageNames
                /\ runs'[r].pc = "finished"
                /\ "audit_log" \notin DOMAIN last_result'[1]
                /\ dispatched' = <<>>
          /\ runs[r].pc = "finished" => runs'[r].pc = "finished"
          /\ (runs[r].pc \in StageNames /\ runs'[r].pc = "finished"
                /\ runs[r].pc # "AUDIT") => RaiseStep(r)
    ]_vars

\* a run has just been aborted by a failure while other work went on: the
\* caller has the error, and the Guardian queues hold what GATE appended
C20_Witness ==
    /\ last_result # <<>>
    /\ last_result[1].status = "raised"
    /\ runs[last_result[1].run].pc = "finished"
    /\ QueuedDecisions # <<>>

\* the positions of the risk results whose score is above 0.70
AboveSeventy(risk_results) ==
    {i \in 1..Len(risk_results) : risk_results[i].risk_score > 7000}

\* the k-th of those positions
KthAbove(risk_results, k) ==
    CHOOSE i \in AboveSeventy(risk_results) :
        Cardinality({j \in AboveSeventy(risk_results) : j <= i}) = k

\* C21: the accounts handed to the strategy collaborator are exactly the
\* assessed accounts with a risk score strictly above 0.70, in the order
\* of the assessment; an assessment at 0.70 or below, also one labelled
\* HIGH at exactly 0.70, is dropped, and the run gates one strategy per
\* account handed over and none for a dropped one.
C21_PlanKeepsAboveSeventy ==
    \A r \in RunIds :
        runs[r].pc \in {"PLAN", "EXECUTE", "AUDIT"} =>
            LET results == runs[r].risk_results
                handed  == runs[r].high_risk_accounts
            IN  /\ Len(handed) = Cardinality(AboveSeventy(results))
                /\ \A k \in 1..Len(handed) : handed[k] = results[KthAbove(results, k)]
                /\ \A i \in 1..Len(results) :
                      results[i].risk_score <= 7000 =>
                          \A k \in 1..Len(handed) : handed[k] # results[i]
                /\ runs[r].pc \in {"EXECUTE", "AUDIT"} =>
                      /\ Len(runs[r].strategies) = Len(handed)
                      /\ \A k \in 1..Len(handed) :
                            runs[r].strategies[k].account_id = handed[k].account_id
                      /\ runs[r].guardian_summary.evaluated = Len(handed)

\* a run has gated the one strategy of an account at 0.75, having dropped
\* an account assessed HIGH at exactly 0.70
C21_Witness ==
    \E r \in RunIds :
        /\ runs[r].pc = "EXECUTE"
        /\ Len(runs[r].risk_results) = 2
        /\ runs[r].risk_results[1].risk_score = 7000
        /\ runs[r].risk_results[1].risk_level = "HIGH"
        /\ runs[r].risk_results[2].risk_score = 7500
        /\ runs[r].risk_results[1].account_id # runs[r].risk_results[2].account_id
        /\ Len(runs[r].strategies) = 1
        /\ runs[r].strategies[1].account_id = runs[r].risk_results[2].account_id

\* the step just taken was a call of get_guardian_queue
QueueViewed ==
    /\ guardian_call.pc = "returned"
    /\ guardian_call.method = "get_guardian_queue"

\* C22: a call of get_guardian_queue, in whatever state it is made and
\* however often, leaves both queues as they are, content and order, and
\* lists the pending and the held decisions in the order of the queues,
\* one entry for each queued decision.
C22_QueueViewIsReadOnly ==
    [][(guardian_call'.pc = "returned"
          /\ guardian_call'.method = "get_guardian_queue") =>
          LET view == guardian_call'.result[1]
          IN  /\ guardian_approval_queue' = guardian_approval_queue
              /\ guardian_hold_queue' = guardian_hold_queue
              /\ Len(view.pending_approval) = Len(guardian_approval_queue)
              /\ Len(view.held_for_review) = Len(guardian_hold_queue)
              /\ \A i \in 1..Len(guardian_approval_queue) :
                    /\ view.pending_approval[i].account_id
                          = guardian_approval_queue[i].account_id
                    /\ view.pending_approval[i].risk_score
                          = guardian_approval_queue[i].overall_risk_score
                    /\ view.pending_approval[i].verdict
                          = guardian_approval_queue[i].overall_verdict
                    /\ view.pending_approval[i].step_decisions
                          = guardian_approval_queue[i].step_decisions
              /\ \A i \in 1..Len(guardian_hold_queue) :
                    /\ view.held_for_review[i].account_id
                          = guardian_hold_queue[i].account_id
                    /\ view.held_for_review[i].risk_score
                          = guardian_hold_queue[i].overall_risk_score
                    /\ view.held_for_review[i].verdict
                          = guardian_hold_queue[i].overall_verdict
    ]_vars

\* the queues have just been listed while a run was awaiting a
\* collaborator: a pending and a held decision, both still queued
C22_Witness ==
    /\ QueueViewed
    /\ guardian_call.result[1].pending_approval # <<>>
    /\ guardian_call.result[1].held_for_review # <<>>
    /\ Len(guardian_approval_queue) = Len(guardian_call.result[1].pending_approval)
    /\ Len(guardian_hold_queue) = Len(guardian_call.result[1].held_for_review)
    /\ \E r \in RunIds : runs[r].pc \in {"FETCH", "ASSESS", "PLAN", "EXECUTE", "AUDIT"}

\* C23: the executions process gathers are isolated from one another: an
\* execution that raises does not take the call down and does not keep any
\* other execution from running all its steps; the call returns only when
\* every execution has returned or raised; each execution that raised is
\* one entry of errors and each other one is one entry of results.
C23_ExecutionsAreIsolated ==
    guardian_call.method = "ExecutionAgent.process" =>
        /\ guardian_call.pc # "raised"
        /\ guardian_call.pc = "returned" =>
              LET tasks  == guardian_call.tasks
                  result == guardian_call.result[1]
                  ok     == {j \in 1..Len(tasks) : tasks[j].broken = 0}
              IN  /\ \A j \in 1..Len(tasks) : tasks[j].status \in {"done", "raised"}
                  /\ \A j \in ok :
                        /\ tasks[j].status = "done"
                        /\ Len(tasks[j].execution_log) = Len(StepsOf(tasks[j].strategy))
                        /\ \E k \in 1..Len(result.results) :
                              result.results[k] = execute_strategy(tasks[j].strategy)
                  /\ \A j \in (1..Len(tasks)) \ ok :
                        /\ tasks[j].status = "raised"
                        /\ \E k \in 1..Len(result.errors) :
                              result.errors[k].account_id = tasks[j].strategy.account_id
                  /\ Len(result.results) = Cardinality(ok)
                  /\ Len(result.errors) = Len(tasks) - Cardinality(ok)
                  /\ result.auto_executed = Len(result.results)
                  /\ result.failed = Len(result.errors)

\* the call has returned one error and one result: the first execution
\* raised at its first step, the second ran both of its steps
C23_Witness ==
    /\ guardian_call.method = "ExecutionAgent.process"
    /\ guardian_call.pc = "returned"
    /\ Len(guardian_call.tasks) = 2
    /\ guardian_call.tasks[1].status = "raised"
    /\ guardian_call.tasks[1].execution_log = <<>>
    /\ guardian_call.tasks[2].status = "done"
    /\ Len(guardian_call.tasks[2].execution_log) = 2
    /\ Len(guardian_call.result[1].errors) = 1
    /\ Len(guardian_call.result[1].results) = 1

\* how many decisions the two queues hold for the account
Queued(account_id) ==
    CountOf(guardian_approval_queue, account_id)
    + CountOf(guardian_hold_queue, account_id)

\* q is the beginning of p
IsPrefix(q, p) ==
    /\ Len(q) <= Len(p)
    /\ \A i \in 1..Len(q) : p[i] = q[i]

\* C24: the appends of GATE and the search-and-remove of reconcile are
\* each one step, whatever runs and reconcile calls are in flight: a
\* reconcile call that finds one decision of its account takes it out in
\* the step of the search, so a second call for the account, made while the
\* first awaits the execution collaborator, gets not-found and dispatches
\* nothing; a found decision is dispatched at most once; and the queues
\* change only by a GATE appending at the tail or by a reconcile call
\* removing the one decision it found, so no appended decision is lost.
C24_QueueStepsAreAtomic ==
    [][/\ \A c \in CallIds :
            ReconcileStep(c) =>
                LET a == calls'[c].account_id
                    b == last_reconcile'[1].account_id
                IN  /\ Queued(b) = 1 =>
                          /\ CountOf(guardian_approval_queue', b)
                                + CountOf(guardian_hold_queue', b) = 0
                          /\ \/ /\ calls'[c].pc = "EXECUTE"
                                /\ Len(dispatched') = 1
                                /\ Len(dispatched'[1].content.strategies) = 1
                                /\ dispatched'[1].content.strategies[1]
                                      = calls'[c].target[1].strategy
                                /\ a = b
                             \/ /\ calls'[c].pc = "finished"
                                /\ last_outcome' # <<>>
                                /\ last_outcome'[1].status = "rejected"
                                /\ dispatched' = <<>>
                    /\ Queued(b) = 0 =>
                          /\ last_outcome' = <<NotFoundOutcome(b)>>
                          /\ dispatched' = <<>>
       /\ (guardian_approval_queue' # guardian_approval_queue
             \/ guardian_hold_queue' # guardian_hold_queue) =>
             \/ \E r \in RunIds :
                   /\ GateStep(r)
                   /\ IsPrefix(guardian_approval_queue, guardian_approval_queue')
                   /\ IsPrefix(guardian_hold_queue, guardian_hold_queue')
             \/ \E c \in CallIds :
                   /\ ReconcileStep(c)
                   /\ Len(guardian_approval_queue') + Len(guardian_hold_queue') + 1
                         = Len(guardian_approval_queue) + Len(guardian_hold_queue)
    ]_vars

\* two reconcile calls for one account: the first took the only decision
\* of the account and awaits the execution collaborator, the second has
\* just returned not-found
C24_Witness ==
    \E c \in CallIds :
        /\ calls[c].pc = "EXECUTE"
        /\ last_reconcile # <<>>
        /\ last_reconcile[1].call # c
        /\ last_reconcile[1].account_id = calls[c].account_id
        /\ last_reconcile[1].in_approval + last_reconcile[1].in_hold = 0
        /\ last_outcome = <<NotFoundOutcome(calls[c].account_id)>>
        /\ Queued(calls[c].account_id) = 0

\* some run is suspended in a collaborator call
RunInFlight == \E r \in RunIds : runs[r].pc \in StageNames

\* a further call of approve_guardian_decision is within the calls looked at
CallLeft ==
    /\ CallsMade < MaxCalls
    /\ \E c \in CallIds : calls[c].pc = "idle"

\* C25: while a run is suspended in the collaborator call of any stage, a
\* reconcile call for an account with a queued decision can be made and
\* finds the decision in its first step, the runs staying where they are:
\* a rejection returns in that step, an approval goes on to the execution
\* collaborator; and a reconcile call awaiting the execution collaborator
\* can return its outcome while the run is still in flight.
C25_ReconcileNeverBlocks ==
    RunInFlight =>
        /\ \A a \in Accounts : \A n \in Notes :
              (Queued(a) > 0 /\ CallLeft) =>
                  /\ ENABLED (\E c \in CallIds :
                                 /\ Reconcile(c, a, FALSE, n)
                                 /\ calls'[c].pc = "finished"
                                 /\ last_outcome' # <<>>
                                 /\ last_outcome'[1].status = "rejected"
                                 /\ runs' = runs)
                  /\ ENABLED (\E c \in CallIds :
                                 /\ Reconcile(c, a, TRUE, n)
                                 /\ calls'[c].pc = "EXECUTE"
                                 /\ runs' = runs)
        /\ \A c \in CallIds :
              calls[c].pc = "EXECUTE" =>
                  ENABLED (/\ ReconcileExecutionReturns(c)
                           /\ last_outcome' # <<>>
                           /\ last_outcome'[1].status = "executed"
                           /\ runs' = runs)

\* a reconcile call has just returned its executed outcome for a decision
\* queued by the GATE of a run that still awaits its execution collaborator
C25_Witness ==
    /\ \E r \in RunIds :
          /\ runs[r].pc = "EXECUTE"
          /\ runs[r].guardian_summary.pending_human_approval
                + runs[r].guardian_summary.held_for_review > 0
    /\ \A r \in RunIds : runs[r].pc \in {"idle", "EXECUTE"}
    /\ last_outcome # <<>>
    /\ last_outcome[1].status = "executed"

\* C26: the audit collaborator is handed the data, risk, strategy, gating
\* and execution outputs of the run that calls it, and the payload the run
\* returns keeps the gating summary: the guardian_summary of the response
\* of /api/analyze is the summary the GATE of that run built.
C26_ResponseKeepsGatingSummary ==
    [][\A r \in RunIds :
          (/\ runs[r].pc = "AUDIT"
           /\ last_result' # <<>>
           /\ last_result'[1].run = r
           /\ last_result'[1].status = "returned") =>
              analyze_revenue_risk(last_result'[1].audit_log).guardian_summary
                  = <<runs[r].guardian_summary>>
    ]_vars

\* C27: in every reachable state each decision in the approval queue has
\* overall verdict HUMAN_APPROVAL_REQUIRED and an overall score from 0.40
\* up to but excluding 0.70, each decision in the hold queue has overall
\* verdict HOLD_FOR_REVIEW and an overall score of 0.70 or more, and no
\* queued decision has verdict AUTO_EXECUTE.
C27_QueuesHoldTheirVerdict ==
    /\ \A i \in 1..Len(guardian_approval_queue) :
          /\ guardian_approval_queue[i].overall_verdict = HUMAN_APPROVAL_REQUIRED
          /\ guardian_approval_queue[i].overall_risk_score >= 40
          /\ guardian_approval_queue[i].overall_risk_score < 70
    /\ \A i \in 1..Len(guardian_hold_queue) :
          /\ guardian_hold_queue[i].overall_verdict = HOLD_FOR_REVIEW
          /\ guardian_hold_queue[i].overall_risk_score >= 70
    /\ \A i \in 1..Len(QueuedDecisions) :
          QueuedDecisions[i].overall_verdict # AUTO_EXECUTE

\* both queues hold a decision, the runs that queued them have ended and a
\* reconcile call has been made
C27_Witness ==
    /\ guardian_approval_queue # <<>>
    /\ guardian_hold_queue # <<>>
    /\ \A r \in RunIds : runs[r].pc \in {"idle", "finished"}
    /\ \E c \in CallIds : calls[c].pc = "finished"

\* position of the first decision of the account in q, 0 when it has none
FirstOf(q, account_id) ==
    IF HasMatch(q, account_id)
    THEN CHOOSE i \in 1..Len(q) : IsFirstMatch(q, account_id, i)
    ELSE 0

\* p is q without the decision at position f, the others in their order;
\* p is q when f is 0
KeepsAllBut(q, p, f) ==
    /\ Len(p) = Len(q) - (IF f > 0 THEN 1 ELSE 0)
    /\ \A i \in 1..Len(q) :
          i # f => p[IF f = 0 \/ i < f THEN i ELSE i - 1] = q[i]

\* C28: a queued decision stays in its queue, and the decisions of a queue
\* keep their order: a step that is not the search of a reconcile call
\* leaves every queued decision at its position and can only append at the
\* tail; the search of a reconcile call takes out the first decision of its
\* account in the approval queue, or, when the approval queue has none,
\* the first one in the hold queue, and leaves every other decision of both
\* queues in place and in order.
C28_QueuedDecisionsPersist ==
    [][/\ (\A c \in CallIds : ~ReconcileStep(c)) =>
             /\ IsPrefix(guardian_approval_queue, guardian_approval_queue')
             /\ IsPrefix(guardian_hold_queue, guardian_hold_queue')
             /\ (\A r \in RunIds : ~GateStep(r)) =>
                   /\ guardian_approval_queue' = guardian_approval_queue
                   /\ guardian_hold_queue' = guardian_hold_queue
       /\ \A c \in CallIds :
             ReconcileStep(c) =>
                 LET b == last_reconcile'[1].account_id
                     f == FirstOf(guardian_approval_queue, b)
                     g == IF f > 0 THEN 0 ELSE FirstOf(guardian_hold_queue, b)
                 IN  /\ KeepsAllBut(guardian_approval_queue,
                                    guardian_approval_queue', f)
                     /\ KeepsAllBut(guardian_hold_queue, guardian_hold_queue', g)
                     /\ \A i \in 1..Len(guardian_approval_queue') :
                           \E k \in 1..Len(guardian_approval_queue) :
                               guardian_approval_queue[k] = guardian_approval_queue'[i]
    ]_vars

\* a reconcile call has just taken the decision of its account out of the
\* approval queue; the decision the account has in the hold queue, and the
\* rest of the approval queue, are where they were
C28_Witness ==
    /\ JustReconciled
    /\ last_reconcile[1].in_approval >= 1
    /\ last_reconcile[1].in_hold >= 1
    /\ CountOf(guardian_hold_queue, last_reconcile[1].account_id)
          = last_reconcile[1].in_hold
    /\ CountOf(guardian_approval_queue, last_reconcile[1].account_id)
          = last_reconcile[1].in_approval - 1
    /\ \E r \in RunIds : runs[r].pc = "finished"

\* the step in which the execution collaborator raises out of reconcile
\* call c
ReconcileRaiseStep(c) ==
    /\ calls[c].pc = "EXECUTE"
    /\ calls'[c].pc = "finished"
    /\ last_outcome' = <<>>

\* C29: when the execution collaborator raises during an approved reconcile
\* call, the call ends with the error and without an outcome, the decision
\* it took out of the queue is not put back, and a reconcile call for the
\* same account that follows returns not-found.
C29_RaisedReconcileLeavesNothing ==
    [][\A c \in CallIds :
          /\ ReconcileRaiseStep(c) =>
                /\ guardian_approval_queue' = guardian_approval_queue
                /\ guardian_hold_queue' = guardian_hold_queue
                /\ dispatched' = <<>>
          /\ (/\ ReconcileStep(c)
              /\ last_reconcile # <<>>
              /\ last_reconcile[1].raised
              /\ last_reconcile[1].account_id = last_reconcile'[1].account_id) =>
                 last_outcome' = <<NotFoundOutcome(last_reconcile'[1].account_id)>>
    ]_vars

\* C30: a run that aborts leaves both queues as they are: the decisions its
\* GATE appended stay queued when the execution or the audit collaborator
\* raises, no audit record is returned for the run, and a reconcile call made
\* next for an account with a queued decision finds and removes one; a run
\* changes a queue in no step other than its GATE, so a run that aborts in
\* FETCH, ASSESS or PLAN has changed neither queue.
C30_AbortKeepsQueuedDecisions ==
    [][/\ \A r \in RunIds :
             /\ RaiseStep(r) =>
                   /\ guardian_approval_queue' = guardian_approval_queue
                   /\ guardian_hold_queue' = guardian_hold_queue
                   /\ "audit_log" \notin DOMAIN last_result'[1]
             /\ (runs'[r] # runs[r] /\ ~GateStep(r)) =>
                   /\ guardian_approval_queue' = guardian_approval_queue
                   /\ guardian_hold_queue' = guardian_hold_queue
       /\ \A c \in CallIds :
             (/\ ReconcileStep(c)
              /\ last_result # <<>>
              /\ last_result[1].status = "raised"
              /\ Queued(last_reconcile'[1].account_id) > 0) =>
                 /\ last_outcome' # <<NotFoundOutcome(last_reconcile'[1].account_id)>>
                 /\ Len(QueuedDecisions') = Len(QueuedDecisions) - 1
    ]_vars

\* the only run made so far has aborted after its GATE and its decisions are
\* queued, with a reconcile call still to be made
C30_Witness ==
    /\ last_result # <<>>
    /\ last_result[1].status = "raised"
    /\ \A r \in RunIds : r # last_result[1].run => runs[r].pc = "idle"
    /\ guardian_approval_queue # <<>>
    /\ guardian_hold_queue # <<>>
    /\ \E c \in CallIds : calls[c].pc = "idle"

\* the account identifiers of the request are pairwise different
UniqueAccounts(data) ==
    \A i, j \in 1..Len(data) : data[i].account_id = data[j].account_id => i = j

HasEmailStep(strategy) ==
    \E i \in 1..Len(StepsOf(strategy)) : StepsOf(strategy)[i].action = "email"

\* C31: with the shipped RiskAgent and StrategyAgent and a request whose
\* account identifiers are unique, every strategy that reaches the gate has
\* an email step and is scored against a context of risk level HIGH, its
\* overall score is at least 0.50, no decision is AUTO_EXECUTE and the list
\* handed to the execution stage is empty.
C31_ShippedRunExecutesNothing ==
    (guardian_call.pc = "gated" /\ UniqueAccounts(guardian_call.data)) =>
        LET gated == guardian_call.strategies
            risk_by_account == RiskByAccount(guardian_call.risk_results)
        IN  /\ \A i \in 1..Len(gated) :
                  /\ HasEmailStep(gated[i])
                  /\ risk_by_account[gated[i].account_id].risk_level = "HIGH"
                  /\ \E d \in {evaluate_strategy(gated[i],
                                   risk_by_account[gated[i].account_id])} :
                        /\ d.overall_risk_score >= 50
                        /\ d.overall_verdict # AUTO_EXECUTE
            /\ guardian_call.result[1].auto_execute = <<>>
            /\ guardian_call.result[1].summary.auto_executed = 0
            /\ Len(QueuedDecisions) = Len(gated)

\* two accounts with different identifiers, both above 0.70, have been gated
C31_Witness ==
    /\ guardian_call.pc = "gated"
    /\ guardian_call.method = "process_revenue_signals"
    /\ UniqueAccounts(guardian_call.data)
    /\ Len(guardian_call.strategies) = 2
    /\ guardian_call.result[1].auto_execute = <<>>

\* the place of a factor in the order action kind, tone, recovery value,
\* risk level, escalation flag, recovery probability
FactorRank(factor) ==
    IF factor = "action_type" THEN 1
    ELSE IF factor = "tone" THEN 2
    ELSE IF factor \in {"high_recovery_value", "moderate_recovery_value"} THEN 3
    ELSE IF factor = "risk_level" THEN 4
    ELSE IF factor = "escalation_required" THEN 5
    ELSE 6

\* the factor list has an entry of this place
Recorded(factors, rank) ==
    \E i \in 1..Len(factors) : FactorRank(factors[i].factor) = rank

\* C32: the factor list score_action returns has the action-kind entry
\* first and then, in the order tone, recovery value, risk level, escalation
\* flag, recovery probability, one entry for each delta that was applied and
\* none for a delta that was not; it has between 1 and 6 entries, and the
\* score is the smaller of 1.00 and the sum of the recorded deltas.
C32_FactorsRecordAppliedDeltas ==
    Returned("score_action") =>
        LET factors == guardian_call.result[1].factors
            step     == guardian_call.action_step
            ctx      == guardian_call.account_risk
            recorded == SumSeq([i \in 1..Len(factors) |-> factors[i].delta])
        IN  /\ Len(factors) \in 1..6
            /\ factors[1].factor = "action_type"
            /\ \A i \in 1..(Len(factors) - 1) :
                  FactorRank(factors[i].factor) < FactorRank(factors[i + 1].factor)
            /\ \A i \in 1..Len(factors) : factors[i].delta > 0
            /\ guardian_call.result[1].score
                  = (IF recorded < 100 THEN recorded ELSE 100)
            /\ guardian_call.malformed = EmptyDict =>
                  /\ Recorded(factors, 2)
                        <=> Get(step, "tone", "") \in {"urgent", "escalated"}
                  /\ Recorded(factors, 3)
                        <=> Get(guardian_call.strategy, "estimated_recovery", 0) > 10000
                  /\ Recorded(factors, 4)
                        <=> Get(ctx, "risk_level", "LOW") \in {"MEDIUM", "HIGH"}
                  /\ Recorded(factors, 5)
                        <=> Get(ctx, "escalation_required", FALSE)
                  /\ Recorded(factors, 6)
                        <=> Get(ctx, "recovery_probability", 5000) < 5000

\* a call that recorded the action kind, the risk level and the recovery
\* probability and left out the tone, the recovery value and the flag
C32_Witness ==
    /\ Returned("score_action")
    /\ guardian_call.malformed = EmptyDict
    /\ Len(guardian_call.result[1].factors) = 3
    /\ guardian_call.result[1].factors[2].factor = "risk_level"
    /\ guardian_call.result[1].factors[3].factor = "moderate_recovery_probability"
    /\ Get(guardian_call.action_step, "tone", "") = "friendly_reminder"

\* C33: the base risk of a step is read from the table, in which the
\* chat post (slack) has the lowest base and the fee waiver the highest: the
\* base of every call lies between the two, and a kind the table does not
\* list gets a base strictly between them.
C33_BaseRiskFromTable ==
    Returned("score_action") =>
        LET kind == Get(guardian_call.action_step, "action", "email")
            base == guardian_call.result[1].factors[1].delta
        IN  /\ ACTION_BASE_RISK["slack"] <= base
            /\ base <= ACTION_BASE_RISK["late_fee_waiver"]
            /\ kind \in DOMAIN ACTION_BASE_RISK => base = ACTION_BASE_RISK[kind]
            /\ kind \notin DOMAIN ACTION_BASE_RISK =>
                  /\ ACTION_BASE_RISK["slack"] < base
                  /\ base < ACTION_BASE_RISK["late_fee_waiver"]

\* the ways to reorder n steps
Orderings(n) ==
    {p \in [1..n -> 1..n] : \A i, j \in 1..n : p[i] = p[j] => i = j}

\* the strategy with this list of steps
WithSteps(strategy, steps) == [strategy EXCEPT !.strategy.steps = steps]

\* the list with x put in at position k
InsertAt(steps, k, x) ==
    SubSeq(steps, 1, k - 1) \o <<x>> \o SubSeq(steps, k, Len(steps))

\* C34: the overall score and the overall verdict evaluate_strategy gives do
\* not depend on the order of the steps: every reordering of the steps of
\* the call gives the same two values; and a strategy with one more step,
\* wherever it is put in, scores at least as high and gets a verdict at
\* least as severe.
C34_OrderFreeAndMonotone ==
    (/\ Returned("evaluate_strategy")
     /\ guardian_call.malformed = EmptyDict
     /\ "strategy" \in DOMAIN guardian_call.strategy
     /\ "steps" \in DOMAIN guardian_call.strategy.strategy) =>
        LET d     == guardian_call.result[1]
            steps == StepsOf(guardian_call.strategy)
            ctx   == guardian_call.account_risk
        IN  /\ \A p \in Orderings(Len(steps)) :
                  \E e \in {evaluate_strategy(
                               WithSteps(guardian_call.strategy,
                                         [i \in 1..Len(steps) |-> steps[p[i]]]),
                               ctx)} :
                     /\ e.overall_risk_score = d.overall_risk_score
                     /\ e.overall_verdict = d.overall_verdict
            /\ \A kind \in StepKinds : \A k \in 1..(Len(steps) + 1) :
                  \E e \in {evaluate_strategy(
                               WithSteps(guardian_call.strategy,
                                  InsertAt(steps, k,
                                     NumberedSteps(<<kind>>)[1])),
                               ctx)} :
                     /\ e.overall_risk_score >= d.overall_risk_score
                     /\ Severity(e.overall_verdict) >= Severity(d.overall_verdict)

\* a strategy whose first step is held and whose second step alone would be
\* executed at once has been evaluated: the order of its steps could matter
C34_Witness ==
    /\ Returned("evaluate_strategy")
    /\ guardian_call.malformed = EmptyDict
    /\ Len(guardian_call.result[1].step_decisions) = 2
    /\ guardian_call.result[1].step_decisions[1].verdict = HOLD_FOR_REVIEW
    /\ guardian_call.result[1].step_decisions[2].verdict = AUTO_EXECUTE
    /\ guardian_call.result[1].overall_verdict = HOLD_FOR_REVIEW

\* C35: the snapshot in the summary a GATE builds lists the decisions this
\* GATE appended to the approval queue, in the order it evaluated them, and
\* after them the decisions it appended to the hold queue, in that order,
\* each with its account identifier, name, overall score, verdict and
\* estimated recovery; its length is pending_human_approval +
\* held_for_review, and no decision that was queued before is in it.
C35_SnapshotListsThisRunsDecisions ==
    [][\A r \in RunIds :
        GateStep(r) =>
            LET summary  == runs'[r].guardian_summary
                snapshot == summary.approval_queue_snapshot
                pending  == SubSeq(guardian_approval_queue',
                                   Len(guardian_approval_queue) + 1,
                                   Len(guardian_approval_queue'))
                held     == SubSeq(guardian_hold_queue',
                                   Len(guardian_hold_queue) + 1,
                                   Len(guardian_hold_queue'))
                queued   == pending \o held
            IN  /\ pending = Keep(DecisionsOf(runs'[r]), HUMAN_APPROVAL_REQUIRED)
                /\ held = Keep(DecisionsOf(runs'[r]), HOLD_FOR_REVIEW)
                /\ Len(snapshot) = Len(queued)
                /\ Len(snapshot)
                      = summary.pending_human_approval + summary.held_for_review
                /\ \A i \in 1..Len(snapshot) :
                      /\ DOMAIN snapshot[i]
                            = {"account_id", "account_name", "risk_score", "verdict",
                               "estimated_recovery"}
                      /\ snapshot[i].account_id = queued[i].account_id
                      /\ snapshot[i].account_name = queued[i].account_name
                      /\ snapshot[i].risk_score = queued[i].overall_risk_score
                      /\ snapshot[i].verdict = queued[i].overall_verdict
                      /\ snapshot[i].estimated_recovery = queued[i].estimated_recovery
    ]_vars

\* the second run has just gated one strategy while a decision of the first
\* run was queued: its snapshot has the one entry
C35_Witness ==
    /\ JustGated(2)
    /\ Len(runs[2].guardian_summary.approval_queue_snapshot) = 1
    /\ Len(QueuedDecisions) = 2
    /\ runs[2].guardian_summary.approval_queue_snapshot[1].verdict = HOLD_FOR_REVIEW
    /\ guardian_approval_queue # <<>>

\* the strategy is one process holds back for sign-off
HeldBack(strategy) ==
    \/ Get(strategy, "estimated_recovery", 0) > 10000
    \/ Get(strategy, "priority", "None") = "high"

\* how many entries of the list carry this account id
EntriesOf(entries, account_id) ==
    Cardinality({i \in 1..Len(entries) : entries[i].account_id = account_id})

\* C36: ExecutionAgent.process accounts for every strategy of the call once:
\* auto_executed + failed + pending_approval is the number of strategies;
\* the strategies counted as pending are those with an estimated recovery
\* above 10,000 or priority high, each of them is stored in approval_queue
\* and none of them is executed; every other strategy has one entry, in
\* results or in errors.
C36_EveryStrategyAccountedOnce ==
    (guardian_call.pc = "returned"
        /\ guardian_call.method = "ExecutionAgent.process") =>
        LET received == guardian_call.strategies
            out      == guardian_call.result[1]
            held     == {i \in 1..Len(received) : HeldBack(received[i])}
        IN  /\ out.auto_executed + out.failed + out.pending_approval = Len(received)
            /\ out.auto_executed = Len(out.results)
            /\ out.failed = Len(out.errors)
            /\ out.pending_approval = Cardinality(held)
            /\ \A i \in held :
                  /\ received[i].account_id \in DOMAIN approval_queue
                  /\ approval_queue[received[i].account_id] = received[i]
            /\ \A a \in Accounts :
                  EntriesOf(out.results, a) + EntriesOf(out.errors, a)
                     = Cardinality({i \in 1..Len(received) \ held :
                                       received[i].account_id = a})

\* the action kinds _execute_strategy has a branch for
SupportedKinds == {"email", "slack", "offer_incentive", "offer", "calendar_invite"}

\* C37: an execution of a strategy ends by returning, with one log entry
\* for each step, in the order of the steps: the entry of a step with an
\* unsupported action kind, or of a step that raised, says failed and the
\* steps after it are still attempted; the status returned is completed
\* when every entry says success, a strategy without steps included, and
\* partial otherwise.
C37_EveryStepIsLogged ==
    guardian_call.method = "ExecutionAgent.process" =>
        \A j \in 1..Len(guardian_call.tasks) :
            LET task  == guardian_call.tasks[j]
                steps == StepsOf(task.strategy)
                log   == task.execution_log
            IN  task.status # "running" =>
                   /\ task.status = "done"
                   /\ Len(log) = Len(steps)
                   /\ \A i \in 1..Len(log) :
                         /\ log[i].step = steps[i].step
                         /\ log[i].action = steps[i].action
                         /\ log[i].status = (IF steps[i].action \in SupportedKinds
                                             THEN "success" ELSE "failed")
                   /\ TaskResult(task).status
                         = (IF \A i \in 1..Len(steps) : steps[i].action \in SupportedKinds
                            THEN "completed" ELSE "partial")

\* how many collaborators a run at this point has been dispatched to
Dispatches(pc) ==
    IF pc = "idle" THEN 0
    ELSE IF pc = "FETCH" THEN 1
    ELSE IF pc = "ASSESS" THEN 2
    ELSE IF pc = "PLAN" THEN 3
    ELSE IF pc = "EXECUTE" THEN 4
    ELSE 5

\* C38: when every collaborator call returns, a run that has started reaches
\* its end: each step of the run is one more dispatch, the GATE evaluates
\* each strategy once, and the run returns the audit payload in the step
\* after its fifth dispatch; a reconcile call ends in the step in which it
\* is made, or dispatches one strategy in that step and ends when the
\* execution collaborator returns.
C38_RunsAndReconcilesTerminate ==
    /\ [][/\ \A r \in RunIds :
               /\ (runs'[r] # runs[r] /\ runs[r].pc # "AUDIT") =>
                     /\ runs'[r].pc # "finished"
                     /\ Dispatches(runs'[r].pc) = Dispatches(runs[r].pc) + 1
               /\ (runs'[r] # runs[r] /\ runs[r].pc = "AUDIT") =>
                     /\ runs'[r].pc = "finished"
                     /\ last_result' # <<>>
                     /\ last_result'[1].run = r
                     /\ last_result'[1].status = "returned"
                     /\ "audit_log" \in DOMAIN last_result'[1]
               /\ GateStep(r) =>
                     runs'[r].guardian_summary.evaluated = Len(runs'[r].strategies)
          /\ \A c \in CallIds :
               calls'[c] # calls[c] =>
                  \/ /\ calls[c].pc = "idle"
                     /\ calls'[c].pc = "finished"
                     /\ dispatched' = <<>>
                  \/ /\ calls[c].pc = "idle"
                     /\ calls'[c].pc = "EXECUTE"
                     /\ Len(dispatched') = 1
                     /\ Len(dispatched'[1].content.strategies) = 1
                  \/ /\ calls[c].pc = "EXECUTE"
                     /\ calls'[c].pc = "finished"
                     /\ dispatched' = <<>>
       ]_vars
    /\ \A r \in RunIds : (runs[r].pc \in StageNames) ~> (runs[r].pc = "finished")
    /\ \A c \in CallIds : (calls[c].pc = "EXECUTE") ~> (calls[c].pc = "finished")

\* both runs have returned and a reconcile call that dispatched a strategy
\* has ended
C38_Witness ==
    /\ \A r \in RunIds : runs[r].pc = "finished"
    /\ last_outcome # <<>>
    /\ last_outcome[1].status = "executed"
    /\ \E c \in CallIds : calls[c].pc = "finished"

====
